---- MODULE Spec2Model ----
(***************************************************************************)
(* Smart diff engine of roam-research-mcp: the block matcher               *)
(* (diff/matcher.ts), the diff computation (diff/diff.ts), the action      *)
(* generator (diff/actions.ts) and the existing-tree flattening            *)
(* (diff/parser.ts), followed by the in-order execution of the generated   *)
(* batch on a block store.                                                 *)
(*                                                                         *)
(* Texts are sequences of one-character strings.  Uids and refs are        *)
(* strings.  A null heading is NullHeading, a null parentUid is NullUid.   *)
(***************************************************************************)
EXTENDS Integers, Sequences, FiniteSets, TLC

VARIABLES pc, existing, newBlocks, matches, result, actions, next, store, rejected,
          pageData, parsed,
          configs, initialized, call, outcome,
          markdown, nodes

\* the variables of the synchronisation pass
passVars == <<pc, existing, newBlocks, matches, result, actions, next, store, rejected>>

\* the variables of the existing-tree adapter
adapterVars == <<pageData, parsed>>

\* the fields of the GraphRegistry, its last call and what the call gave
registryVars == <<configs, initialized, call, outcome>>

\* the lines of the markdown document and the forest parsed from them
markdownVars == <<markdown, nodes>>

vars == <<passVars, adapterVars, registryVars, markdownVars>>

(***************************************************************************)
(* Bounds of the input families.                                           *)
(***************************************************************************)
MaxExisting == 2
MaxDesired == 3
MaxVariant == 2
MaxFlat == 5
MaxFallback == 3
MaxReorder == 3
MaxUnknown == 2
MaxRaw == 3
MaxRawOrder == 1
MaxLines == 3
MaxOld == 4
MaxInterior == 2
MaxAround == 1

(***************************************************************************)
(* Values.                                                                 *)
(***************************************************************************)
NullHeading == -1
Last == -2
NullUid == "null"
parentUid == "page"
\* an identifier that is neither the page, a desired ref nor an existing uid
UnknownUid == "ghost"

EUids == <<"e1", "e2", "e3", "e4", "e5", "e6">>
Refs == <<"n1", "n2", "n3", "n4", "n5", "n6">>

OneText == { <<"a">> }
OtherText == { <<"b">> }
PlainTexts == { <<"a">>, <<"b">> }
Texts == { <<"a">>, <<"b">>, <<" ", "a", " ">>, <<"1", ".", " ", "a">> }
Headings == { NullHeading, 1, 2 }

IsSpace(c) == c \in {" ", "\n"}
IsDigit(c) == c \in {"0", "1", "2", "3", "4", "5", "6", "7", "8", "9"}

Abs(x) == IF x < 0 THEN -x ELSE x
Min(a, b) == IF a < b THEN a ELSE b

Reverse(s) == [i \in 1..Len(s) |-> s[Len(s) + 1 - i]]

\* Array.prototype.indexOf: 0-based index of the first occurrence, -1 if none
IndexOf(s, x) ==
  IF \E i \in 1..Len(s) : s[i] = x
    THEN (CHOOSE i \in 1..Len(s) : s[i] = x /\ \A j \in 1..(i - 1) : s[j] # x) - 1
    ELSE -1

\* Map.get(k) ?? d
GetOr(m, k, d) == IF k \in DOMAIN m THEN m[k] ELSE d

\* Map.set(k, v)
MapSet(m, k, v) == [x \in (DOMAIN m) \cup {k} |-> IF x = k THEN v ELSE m[x]]

EmptyMap == [x \in {} |-> NullUid]

(***************************************************************************)
(* Text normalisation (matcher.ts).                                        *)
(***************************************************************************)
RECURSIVE TrimStart(_)
TrimStart(t) ==
  IF t # << >> /\ IsSpace(Head(t)) THEN TrimStart(Tail(t)) ELSE t

RECURSIVE TrimEnd(_)
TrimEnd(t) ==
  IF t # << >> /\ IsSpace(t[Len(t)]) THEN TrimEnd(SubSeq(t, 1, Len(t) - 1)) ELSE t

normalizeText(text) == TrimEnd(TrimStart(text))

\* number of leading characters of t that satisfy the class (digit or space)
RECURSIVE LeadingDigits(_)
LeadingDigits(t) ==
  IF t # << >> /\ IsDigit(Head(t)) THEN 1 + LeadingDigits(Tail(t)) ELSE 0

RECURSIVE LeadingSpaces(_)
LeadingSpaces(t) ==
  IF t # << >> /\ IsSpace(Head(t)) THEN 1 + LeadingSpaces(Tail(t)) ELSE 0

\* text.trim().replace(/^\d+\.\s+/, '')
normalizeForMatching(text) ==
  LET t == normalizeText(text)
      d == LeadingDigits(t)
      afterDigits == SubSeq(t, d + 1, Len(t))
      afterDot == IF afterDigits = << >> THEN << >> ELSE Tail(afterDigits)
      s == LeadingSpaces(afterDot)
  IN IF d >= 1 /\ afterDigits # << >> /\ Head(afterDigits) = "." /\ s >= 1
       THEN SubSeq(afterDot, s + 1, Len(afterDot))
       ELSE t

(***************************************************************************)
(* Existing tree (diff/types.ts ExistingBlock) and its flattening.         *)
(* A tree is [roots |-> sequence of uids, block |-> uid -> ExistingBlock], *)
(* an ExistingBlock carries the uids of its children in list order.        *)
(***************************************************************************)
ExistingBlock(uid, text, order, heading, children, parent) ==
  [uid |-> uid, text |-> text, order |-> order, heading |-> heading,
   children |-> children, parentUid |-> parent]

NewBlock(ref, text, parentRef, order, heading) ==
  [ref |-> ref, text |-> text, parentRef |-> parentRef, order |-> order,
   open |-> TRUE, heading |-> heading]

RECURSIVE flattenList(_, _)
flattenList(tree, uids) ==
  IF uids = << >> THEN << >>
  ELSE LET block == tree.block[Head(uids)]
       IN <<block>> \o flattenList(tree, block.children) \o flattenList(tree, Tail(uids))

flattenExistingBlocks(tree) == flattenList(tree, tree.roots)

(***************************************************************************)
(* matchBlocks (diff/matcher.ts).                                          *)
(***************************************************************************)
\* existingByText.get(normText) ?? []  -- blocks in the order of the flat list
existingByText(existingFlat, normText) ==
  SelectSeq(existingFlat, LAMBDA eb : normalizeText(eb.text) = normText)

\* the second index keyed by the trimmed text, like the first
existingByNormalizedTrimOnly(existingFlat, matchText) ==
  SelectSeq(existingFlat, LAMBDA eb : normalizeText(eb.text) = matchText)

\* existingByNormalized.get(matchText) ?? []
existingByNormalized(existingFlat, matchText) ==
  SelectSeq(existingFlat, LAMBDA eb : normalizeForMatching(eb.text) = matchText)

\* the filter left out: a used block stays a candidate
unusedOfUnfiltered(blocks, usedExisting) == blocks

\* .filter((e) => !usedExisting.has(e.uid))
unusedOf(blocks, usedExisting) ==
  SelectSeq(blocks, LAMBDA e : e.uid \notin usedExisting)

\* (a, b) => Math.abs(a.order - idx) < Math.abs(b.order - idx) ? a : b
closer(a, b, idx) ==
  IF Abs(a.order - idx) < Abs(b.order - idx) THEN a ELSE b

RECURSIVE reduceFrom(_, _, _)
reduceFrom(a, rest, idx) ==
  IF rest = << >> THEN a
  ELSE reduceFrom(closer(a, Head(rest), idx), Tail(rest), idx)

\* candidates.reduce(...) without initial value, candidates non-empty
best(candidates, idx) == reduceFrom(Head(candidates), Tail(candidates), idx)

\* matches.set(ref, uid); usedExisting.add(uid)
record(st, ref, uid) ==
  [matches |-> MapSet(st.matches, ref, uid),
   usedExisting |-> st.usedExisting \cup {uid}]

\* Phase 1: newBlocks.forEach from position i (1-based; idx = i - 1)
RECURSIVE phase1(_, _, _, _)
phase1(existingFlat, blocks, i, st) ==
  IF i > Len(blocks) THEN st
  ELSE LET newBlock == blocks[i]
           candidates == unusedOf(existingByText(existingFlat, normalizeText(newBlock.text)),
                                  st.usedExisting)
       IN IF Len(candidates) > 0
            THEN phase1(existingFlat, blocks, i + 1,
                        record(st, newBlock.ref, best(candidates, i - 1).uid))
            ELSE phase1(existingFlat, blocks, i + 1, st)

\* Phase 2: newBlocks.forEach from position i, skipping matched blocks
RECURSIVE phase2(_, _, _, _)
phase2(existingFlat, blocks, i, st) ==
  IF i > Len(blocks) THEN st
  ELSE LET newBlock == blocks[i]
           candidates == unusedOf(existingByNormalized(existingFlat,
                                    normalizeForMatching(newBlock.text)),
                                  st.usedExisting)
       IN IF newBlock.ref \in DOMAIN st.matches
            THEN phase2(existingFlat, blocks, i + 1, st)
            ELSE IF Len(candidates) > 0
              THEN phase2(existingFlat, blocks, i + 1,
                          record(st, newBlock.ref, best(candidates, i - 1).uid))
              ELSE phase2(existingFlat, blocks, i + 1, st)

\* [...blocks].sort((a, b) => a.order - b.order): stable, ascending order
RECURSIVE sortByOrder(_)
sortByOrder(blocks) ==
  IF blocks = << >> THEN << >>
  ELSE LET e == blocks[Len(blocks)]
           sorted == sortByOrder(SubSeq(blocks, 1, Len(blocks) - 1))
           k == Cardinality({j \in 1..Len(sorted) : sorted[j].order <= e.order})
       IN SubSeq(sorted, 1, k) \o <<e>> \o SubSeq(sorted, k + 1, Len(sorted))

\* the threshold of the position fallback
PositionFallbackLimit == 3

\* unmatchedNew.forEach from position i
RECURSIVE pairByPosition(_, _, _, _)
pairByPosition(unmatchedNew, sortedExisting, i, st) ==
  IF i > Len(unmatchedNew) THEN st
  ELSE IF i - 1 < Len(sortedExisting)
    THEN pairByPosition(unmatchedNew, sortedExisting, i + 1,
                        record(st, unmatchedNew[i].ref, sortedExisting[i].uid))
    ELSE pairByPosition(unmatchedNew, sortedExisting, i + 1, st)

\* the two counts joined by || instead of &&
phase3EitherSide(existingFlat, blocks, st) ==
  LET unmatchedNew == SelectSeq(blocks, LAMBDA b : b.ref \notin DOMAIN st.matches)
      unmatchedExisting == unusedOf(existingFlat, st.usedExisting)
  IN IF Len(unmatchedNew) <= PositionFallbackLimit
          \/ Len(unmatchedExisting) <= PositionFallbackLimit
       THEN pairByPosition(unmatchedNew, sortByOrder(unmatchedExisting), 1, st)
       ELSE st

phase3(existingFlat, blocks, st) ==
  LET unmatchedNew == SelectSeq(blocks, LAMBDA b : b.ref \notin DOMAIN st.matches)
      unmatchedExisting == unusedOf(existingFlat, st.usedExisting)
  IN IF Len(unmatchedNew) <= PositionFallbackLimit
          /\ Len(unmatchedExisting) <= PositionFallbackLimit
       THEN pairByPosition(unmatchedNew, sortByOrder(unmatchedExisting), 1, st)
       ELSE st

\* the loop of phase 2 run before the loop of phase 1
matchBlocksNormalizedFirst(existingFlat, blocks) ==
  LET st0 == [matches |-> EmptyMap, usedExisting |-> {}]
      st1 == phase2(existingFlat, blocks, 1, st0)
      st2 == phase1(existingFlat, SelectSeq(blocks, LAMBDA b : b.ref \notin DOMAIN st1.matches),
                    1, st1)
  IN phase3(existingFlat, blocks, st2).matches

matchBlocks(existingFlat, blocks) ==
  LET st0 == [matches |-> EmptyMap, usedExisting |-> {}]
      st1 == phase1(existingFlat, blocks, 1, st0)
      st2 == phase2(existingFlat, blocks, 1, st1)
  IN phase3(existingFlat, blocks, st2).matches

(***************************************************************************)
(* Batch actions (types/roam.ts RoamBatchAction).  `fields' names the      *)
(* optional properties that are present in the action object; a property   *)
(* that is absent holds the filler value of its column.                    *)
(***************************************************************************)
createBlock(uid, dParent, order, string, heading, fields) ==
  [action |-> "create-block", uid |-> uid, parent |-> dParent, order |-> order,
   string |-> string, heading |-> heading, fields |-> fields]

updateBlock(uid, string, heading, fields) ==
  [action |-> "update-block", uid |-> uid, parent |-> NullUid, order |-> Last,
   string |-> string, heading |-> heading, fields |-> fields]

moveBlock(uid, dParent, order) ==
  [action |-> "move-block", uid |-> uid, parent |-> dParent, order |-> order,
   string |-> << >>, heading |-> NullHeading, fields |-> {"location"}]

deleteBlock(uid) ==
  [action |-> "delete-block", uid |-> uid, parent |-> NullUid, order |-> Last,
   string |-> << >>, heading |-> NullHeading, fields |-> {}]

EmptyResult ==
  [creates |-> << >>, updates |-> << >>, moves |-> << >>, deletes |-> << >>,
   preservedUids |-> {}]

(***************************************************************************)
(* diffBlockTrees (diff/diff.ts).                                          *)
(***************************************************************************)
\* the parent reference taken as it is, without the lookup in the matches
desiredParentUidUnresolved(newBlock, m) ==
  IF newBlock.parentRef = NullUid THEN parentUid ELSE newBlock.parentRef

\* a null parentRef looked up like a reference
desiredParentUidNullUnread(newBlock, m) ==
  IF newBlock.parentRef = parentUid THEN parentUid
  ELSE GetOr(m, newBlock.parentRef, newBlock.parentRef)

\* the inner function desiredParentUid; m is the match mapping
desiredParentUid(newBlock, m) ==
  IF newBlock.parentRef = NullUid THEN parentUid
  ELSE IF newBlock.parentRef = parentUid THEN parentUid
  ELSE GetOr(m, newBlock.parentRef, newBlock.parentRef)

\* matches.get(newUid) ?? newUid
targetUid(newBlock, m) == GetOr(m, newBlock.ref, newBlock.ref)

\* siblingsByDesiredParent.get(dParent) ?? []
siblingsByDesiredParent(blocks, m, dParent) ==
  LET group == SelectSeq(blocks, LAMBDA b : desiredParentUid(b, m) = dParent)
  IN [i \in 1..Len(group) |-> targetUid(group[i], m)]

\* newUidToDesiredParent.get(newUid): the entry set last for that key
newUidToDesiredParent(blocks, m, newUid) ==
  LET i == CHOOSE i \in 1..Len(blocks) :
             blocks[i].ref = newUid /\ \A j \in (i + 1)..Len(blocks) : blocks[j].ref # newUid
  IN desiredParentUid(blocks[i], m)

\* existingByUid.get(uid): the entry set last for that key
existingByUid(existingFlat, uid) ==
  LET i == CHOOSE i \in 1..Len(existingFlat) :
             existingFlat[i].uid = uid
             /\ \A j \in (i + 1)..Len(existingFlat) : existingFlat[j].uid # uid
  IN existingFlat[i]

\* the desired heading staged as it is, null included
stagedHeadingAsIs(newHeading, existHeading) ==
  IF newHeading # existHeading
    THEN [set |-> TRUE, value |-> newHeading]
    ELSE [set |-> FALSE, value |-> NullHeading]

\* the heading staged in the update: [set, value]
stagedHeading(newHeading, existHeading) ==
  IF newHeading # existHeading
    THEN IF newHeading # NullHeading
           THEN [set |-> TRUE, value |-> newHeading]
           ELSE IF existHeading # NullHeading
             THEN [set |-> TRUE, value |-> 0]
             ELSE [set |-> FALSE, value |-> NullHeading]
    ELSE [set |-> FALSE, value |-> NullHeading]

\* the texts compared as they are, without normalizeText
stagedStringUntrimmed(newText, existText) ==
  IF newText # existText
    THEN [set |-> TRUE, value |-> newText]
    ELSE [set |-> FALSE, value |-> << >>]

\* the text staged in the update: [set, value]
stagedString(newText, existText) ==
  IF normalizeText(newText) # normalizeText(existText)
    THEN [set |-> TRUE, value |-> newText]
    ELSE [set |-> FALSE, value |-> << >>]

\* the comparison of the orders left out
needsMoveParentOnly(currentParent, dParent, existOrder, desiredOrder) ==
  currentParent # dParent

\* the comparison of the parents left out
needsMoveOrderOnly(currentParent, dParent, existOrder, desiredOrder) ==
  existOrder # desiredOrder

\* currentParent !== dParent || existBlock.order !== desiredOrder
needsMove(currentParent, dParent, existOrder, desiredOrder) ==
  currentParent # dParent \/ existOrder # desiredOrder

\* the add left out
preservedOmitted(res, existUid) == res

\* result.preservedUids.add(existUid)
preserved(res, existUid) == [res EXCEPT !.preservedUids = @ \cup {existUid}]

\* the move decided only for a block that gets no update
processMatchedMoveUnlessUpdate(res, existingFlat, blocks, m, newBlock) ==
  LET existUid == m[newBlock.ref]
      existBlock == existingByUid(existingFlat, existUid)
      currentParent == IF existBlock.parentUid = NullUid THEN parentUid
                       ELSE existBlock.parentUid
      dParent == newUidToDesiredParent(blocks, m, newBlock.ref)
      str == stagedString(newBlock.text, existBlock.text)
      hd == stagedHeading(newBlock.heading, existBlock.heading)
      needsUpdate == str.set \/ hd.set
      updateAction == updateBlock(existUid, str.value, hd.value,
                        (IF str.set THEN {"string"} ELSE {})
                        \cup (IF hd.set THEN {"heading"} ELSE {}))
      desiredSiblings == siblingsByDesiredParent(blocks, m, dParent)
      desiredOrder == IndexOf(desiredSiblings, existUid)
      moved == ~needsUpdate
               /\ needsMove(currentParent, dParent, existBlock.order, desiredOrder)
  IN [preserved(res, existUid) EXCEPT
        !.updates = IF needsUpdate THEN Append(@, updateAction) ELSE @,
        !.moves = IF moved THEN Append(@, moveBlock(existUid, dParent, desiredOrder)) ELSE @]

\* body of the loop of step 2 for a matched block
processMatched(res, existingFlat, blocks, m, newBlock) ==
  LET existUid == m[newBlock.ref]
      existBlock == existingByUid(existingFlat, existUid)
      currentParent == IF existBlock.parentUid = NullUid THEN parentUid
                       ELSE existBlock.parentUid
      dParent == newUidToDesiredParent(blocks, m, newBlock.ref)
      str == stagedString(newBlock.text, existBlock.text)
      hd == stagedHeading(newBlock.heading, existBlock.heading)
      needsUpdate == str.set \/ hd.set
      updateAction == updateBlock(existUid, str.value, hd.value,
                        (IF str.set THEN {"string"} ELSE {})
                        \cup (IF hd.set THEN {"heading"} ELSE {}))
      desiredSiblings == siblingsByDesiredParent(blocks, m, dParent)
      desiredOrder == IndexOf(desiredSiblings, existUid)
      moved == needsMove(currentParent, dParent, existBlock.order, desiredOrder)
  IN [preserved(res, existUid) EXCEPT
        !.updates = IF needsUpdate THEN Append(@, updateAction) ELSE @,
        !.moves = IF moved THEN Append(@, moveBlock(existUid, dParent, desiredOrder)) ELSE @]

\* body of the loop of step 2 for an unmatched block
processUnmatched(res, blocks, m, newBlock) ==
  LET dParent == newUidToDesiredParent(blocks, m, newBlock.ref)
      desiredSiblings == siblingsByDesiredParent(blocks, m, dParent)
      desiredOrder == IndexOf(desiredSiblings, newBlock.ref)
      createAction ==
        createBlock(newBlock.ref, dParent,
                    IF desiredOrder >= 0 THEN desiredOrder ELSE Last,
                    newBlock.text, newBlock.heading,
                    {"location", "string", "open"}
                    \cup (IF newBlock.heading # NullHeading THEN {"heading"} ELSE {}))
  IN [res EXCEPT !.creates = Append(@, createAction)]

\* step 2: for (const newBlock of newBlocks) from position i
RECURSIVE processBlocks(_, _, _, _, _)
processBlocks(res, existingFlat, blocks, m, i) ==
  IF i > Len(blocks) THEN res
  ELSE IF blocks[i].ref \in DOMAIN m
    THEN processBlocks(processMatched(res, existingFlat, blocks, m, blocks[i]),
                       existingFlat, blocks, m, i + 1)
    ELSE processBlocks(processUnmatched(res, blocks, m, blocks[i]),
                       existingFlat, blocks, m, i + 1)

\* new Set(matches.values())
matchedExistingUids(m) == {m[r] : r \in DOMAIN m}

\* the loop run over the top-level blocks instead of the flat list
unmatchedDeletesTopLevel(existingFlat, m) ==
  LET unmatched == SelectSeq(existingFlat,
                     LAMBDA eb : eb.parentUid = NullUid /\ eb.uid \notin matchedExistingUids(m))
  IN [i \in 1..Len(unmatched) |-> deleteBlock(unmatched[i].uid)]

\* step 3: the delete of every unmatched existing block, in flat order
unmatchedDeletes(existingFlat, m) ==
  LET unmatched == SelectSeq(existingFlat, LAMBDA eb : eb.uid \notin matchedExistingUids(m))
  IN [i \in 1..Len(unmatched) |-> deleteBlock(unmatched[i].uid)]

diffBlockTrees(tree, blocks) ==
  LET existingFlat == flattenExistingBlocks(tree)
      m == matchBlocks(existingFlat, blocks)
      res == processBlocks(EmptyResult, existingFlat, blocks, m, 1)
  IN [res EXCEPT !.deletes = unmatchedDeletes(existingFlat, m)]

(***************************************************************************)
(* generateBatchActions (diff/actions.ts).  The value is the returned      *)
(* array together with the DiffResult object as the call leaves it.        *)
(***************************************************************************)
\* the deletes appended in the order of discovery
generateBatchActionsUnreversed(diff) ==
  [actions |-> diff.creates \o diff.moves \o diff.updates \o diff.deletes,
   diff |-> diff]

\* diff.deletes.reverse() without the copy: the array of the argument is reversed
generateBatchActionsInPlace(diff) ==
  [actions |-> diff.creates \o diff.moves \o diff.updates \o Reverse(diff.deletes),
   diff |-> [diff EXCEPT !.deletes = Reverse(diff.deletes)]]

\* the moves put before the creates
generateBatchActionsMovesFirst(diff) ==
  [actions |-> diff.moves \o diff.creates \o diff.updates \o Reverse(diff.deletes),
   diff |-> diff]

\* the deletes put before the moves
generateBatchActionsDeletesFirst(diff) ==
  [actions |-> diff.creates \o Reverse(diff.deletes) \o diff.moves \o diff.updates,
   diff |-> diff]

\* the moves put in reversed order
generateBatchActionsMovesReversed(diff) ==
  [actions |-> diff.creates \o Reverse(diff.moves) \o diff.updates \o Reverse(diff.deletes),
   diff |-> diff]

generateBatchActions(diff) ==
  [actions |-> diff.creates \o diff.moves \o diff.updates \o Reverse(diff.deletes),
   diff |-> diff]

(***************************************************************************)
(* The block store that executes the batch: the children of the page and   *)
(* of every block in sibling order, and the string, heading and parent of  *)
(* every block.                                                            *)
(***************************************************************************)
InitialStore(tree) ==
  [kids |-> [u \in {parentUid} \cup DOMAIN tree.block |->
               IF u = parentUid THEN tree.roots ELSE tree.block[u].children],
   block |-> [u \in DOMAIN tree.block |->
               [string |-> tree.block[u].text,
                heading |-> tree.block[u].heading,
                parent |-> IF tree.block[u].parentUid = NullUid THEN parentUid
                           ELSE tree.block[u].parentUid]]]

InsertAt(s, order, x) ==
  LET k == IF order = Last THEN Len(s) ELSE Min(order, Len(s))
  IN SubSeq(s, 1, k) \o <<x>> \o SubSeq(s, k + 1, Len(s))

Remove(s, x) == SelectSeq(s, LAMBDA y : y # x)

\* a is u itself or an ancestor of u in the store
RECURSIVE IsAncestorOrSelf(_, _, _)
IsAncestorOrSelf(st, a, u) ==
  IF u = a THEN TRUE
  ELSE IF u \notin DOMAIN st.block THEN FALSE
  ELSE IsAncestorOrSelf(st, a, st.block[u].parent)

Present(st, u) == u \in DOMAIN st.kids

CanCreate(st, a) == Present(st, a.parent) /\ ~Present(st, a.uid)

StoreCreate(st, a) ==
  [kids |-> [u \in DOMAIN st.kids \cup {a.uid} |->
               IF u = a.uid THEN << >>
               ELSE IF u = a.parent THEN InsertAt(st.kids[u], a.order, a.uid)
               ELSE st.kids[u]],
   block |-> [u \in DOMAIN st.block \cup {a.uid} |->
               IF u = a.uid
                 THEN [string |-> a.string,
                       heading |-> IF "heading" \in a.fields THEN a.heading ELSE NullHeading,
                       parent |-> a.parent]
                 ELSE st.block[u]]]

CanMove(st, a) ==
  /\ a.uid \in DOMAIN st.block
  /\ Present(st, a.parent)
  /\ ~IsAncestorOrSelf(st, a.uid, a.parent)

StoreMove(st, a) ==
  LET detached == [u \in DOMAIN st.kids |-> Remove(st.kids[u], a.uid)]
  IN [kids |-> [detached EXCEPT ![a.parent] = InsertAt(@, a.order, a.uid)],
      block |-> [st.block EXCEPT ![a.uid].parent = a.parent]]

CanUpdate(st, a) == a.uid \in DOMAIN st.block

StoreUpdate(st, a) ==
  [st EXCEPT !.block[a.uid] =
     [@ EXCEPT !.string = IF "string" \in a.fields THEN a.string ELSE @,
               !.heading = IF "heading" \in a.fields THEN a.heading ELSE @]]

CanDelete(st, a) == a.uid \in DOMAIN st.block /\ st.kids[a.uid] = << >>

StoreDelete(st, a) ==
  [kids |-> [u \in DOMAIN st.kids \ {a.uid} |-> Remove(st.kids[u], a.uid)],
   block |-> [u \in DOMAIN st.block \ {a.uid} |-> st.block[u]]]

(***************************************************************************)
(* Inputs.  A forest of n nodes is a parent vector in document order:      *)
(* pv[i] is 0 for a top-level node and else the position of the parent,    *)
(* which is on the path from the previous node to the top.  Sibling orders *)
(* are 0..k-1 under every parent.                                          *)
(***************************************************************************)
Forests(n) ==
  {pv \in [1..n -> 0..n] :
     \A i \in 1..n : pv[i] < i /\ \A j \in (pv[i] + 1)..(i - 1) : pv[j] >= pv[i]}

FlatForests(n) == {[i \in 1..n |-> 0]}

SiblingIndex(pv, i) == Cardinality({j \in 1..(i - 1) : pv[j] = pv[i]})

ChildPositions(pv, p) ==
  SelectSeq([i \in 1..Len(pv) |-> i], LAMBDA i : pv[i] = p)

ChildUids(pv, p) ==
  LET pos == ChildPositions(pv, p) IN [k \in 1..Len(pos) |-> EUids[pos[k]]]

\* the tree that parseExistingBlocks returns for a page of this shape
ExistingTree(pv, tx, hd) ==
  [roots |-> ChildUids(pv, 0),
   block |-> [u \in {EUids[i] : i \in 1..Len(pv)} |->
                LET i == CHOOSE i \in 1..Len(pv) : EUids[i] = u
                IN ExistingBlock(u, tx[i], SiblingIndex(pv, i), hd[i], ChildUids(pv, i),
                                 IF pv[i] = 0 THEN NullUid ELSE EUids[pv[i]])]]

\* the list that markdownToBlocks returns for a document of this shape
DesiredList(pv, tx, hd) ==
  [i \in 1..Len(pv) |->
     NewBlock(Refs[i], tx[i], IF pv[i] = 0 THEN parentUid ELSE Refs[pv[i]],
              SiblingIndex(pv, i), hd[i])]

NoHeadings(n) == {[i \in 1..n |-> NullHeading]}

\* nested trees, two texts, no heading
ShapeTrees ==
  UNION {{ExistingTree(pv, tx, hd) :
            pv \in Forests(n), tx \in [1..n -> PlainTexts], hd \in NoHeadings(n)} :
         n \in 0..MaxExisting}

ShapeLists ==
  UNION {{DesiredList(pv, tx, hd) :
            pv \in Forests(n), tx \in [1..n -> PlainTexts], hd \in NoHeadings(n)} :
         n \in 0..MaxDesired}

\* small flat lists, texts with surrounding blanks and list prefixes
TextTrees ==
  UNION {{ExistingTree(pv, tx, hd) :
            pv \in FlatForests(n), tx \in [1..n -> Texts], hd \in NoHeadings(n)} :
         n \in 0..MaxVariant}

TextLists ==
  UNION {{DesiredList(pv, tx, hd) :
            pv \in FlatForests(n), tx \in [1..n -> Texts], hd \in NoHeadings(n)} :
         n \in 0..MaxVariant}

\* small flat lists with headings; one text on the existing side
HeadingTrees ==
  UNION {{ExistingTree(pv, tx, hd) :
            pv \in FlatForests(n), tx \in [1..n -> OneText], hd \in [1..n -> Headings]} :
         n \in 0..MaxVariant}

HeadingLists ==
  UNION {{DesiredList(pv, tx, hd) :
            pv \in FlatForests(n), tx \in [1..n -> PlainTexts], hd \in [1..n -> Headings]} :
         n \in 0..MaxVariant}

\* longer flat lists, two texts, no heading
FlatTrees ==
  UNION {{ExistingTree(pv, tx, hd) :
            pv \in FlatForests(n), tx \in [1..n -> PlainTexts], hd \in NoHeadings(n)} :
         n \in 0..MaxFlat}

FlatLists ==
  UNION {{DesiredList(pv, tx, hd) :
            pv \in FlatForests(n), tx \in [1..n -> PlainTexts], hd \in NoHeadings(n)} :
         n \in 0..MaxFlat}

\* nested trees of one text against flat lists of another text
FallbackTrees ==
  UNION {{ExistingTree(pv, tx, hd) :
            pv \in Forests(n), tx \in [1..n -> OneText], hd \in NoHeadings(n)} :
         n \in 0..MaxFallback}

FallbackLists ==
  UNION {{DesiredList(pv, tx, hd) :
            pv \in FlatForests(n), tx \in [1..n -> OtherText], hd \in NoHeadings(n)} :
         n \in 0..MaxFallback}

\* flat sibling lists of distinct texts against the flat lists of MaxReorder
\* texts at most
TextOrder == << <<"a">>, <<"b">>, <<"1", ".", " ", "a">>, <<" ", "a", " ">> >>

ReorderTrees ==
  {ExistingTree([i \in 1..n |-> 0],
                [i \in 1..n |-> TextOrder[((i - 1) % Len(TextOrder)) + 1]],
                [i \in 1..n |-> NullHeading]) : n \in 0..MaxReorder}

ReorderLists ==
  UNION {{DesiredList(pv, tx, hd) :
            pv \in FlatForests(n), tx \in [1..n -> Texts], hd \in NoHeadings(n)} :
         n \in 0..MaxReorder}

Inputs ==
  (ShapeTrees \X ShapeLists) \cup (TextTrees \X TextLists)
  \cup (HeadingTrees \X HeadingLists) \cup (FlatTrees \X FlatLists)
  \cup (FallbackTrees \X FallbackLists) \cup (ReorderTrees \X ReorderLists)

(***************************************************************************)
(* The existing-tree adapter (diff/parser.ts).  A raw block of the Roam     *)
(* API is a record whose `fields' names the properties that are present;    *)
(* a property that is absent holds the filler value of its column.          *)
(***************************************************************************)
RoamApiBlock(fields, uid, string, order, heading, children) ==
  [fields |-> fields, uid |-> uid, string |-> string, order |-> order,
   heading |-> heading, children |-> children]

\* roamBlock[':block/children'] ?? []
childrenRawOf(roamBlock) ==
  IF "children" \in roamBlock.fields THEN roamBlock.children ELSE << >>

\* a[':block/order'] ?? 0
rawOrder(roamBlock) == IF "order" \in roamBlock.fields THEN roamBlock.order ELSE 0

\* the children taken in the order of the snapshot
childrenUnsorted(childrenRaw) == childrenRaw

\* [...childrenRaw].sort((a, b) => (a[':block/order'] ?? 0) - (b[':block/order'] ?? 0))
RECURSIVE childrenSorted(_)
childrenSorted(childrenRaw) ==
  IF childrenRaw = << >> THEN << >>
  ELSE LET c == childrenRaw[Len(childrenRaw)]
           sorted == childrenSorted(SubSeq(childrenRaw, 1, Len(childrenRaw) - 1))
           k == Cardinality({j \in 1..Len(sorted) : rawOrder(sorted[j]) <= rawOrder(c)})
       IN SubSeq(sorted, 1, k) \o <<c>> \o SubSeq(sorted, k + 1, Len(sorted))

\* parent is the parentUid argument, NullUid for null
RECURSIVE parseExistingBlock(_, _)
parseExistingBlock(roamBlock, parent) ==
  LET sorted == childrenSorted(childrenRawOf(roamBlock))
      uid == IF "uid" \in roamBlock.fields THEN roamBlock.uid ELSE ""
  IN ExistingBlock(uid,
                   IF "string" \in roamBlock.fields THEN roamBlock.string ELSE << >>,
                   rawOrder(roamBlock),
                   IF "heading" \in roamBlock.fields THEN roamBlock.heading ELSE NullHeading,
                   [i \in 1..Len(sorted) |-> parseExistingBlock(sorted[i], uid)],
                   parent)

parseExistingBlocks(page) ==
  LET sorted == childrenSorted(childrenRawOf(page))
  IN [i \in 1..Len(sorted) |-> parseExistingBlock(sorted[i], NullUid)]

\* a page without a children property
EmptyPage == RoamApiBlock({}, "", << >>, 0, NullHeading, << >>)

\* the raw block at position i of the forest pv with the orders od; a block
\* in bare has no property but its children, a leaf in bare has none at all
RECURSIVE RawBlock(_, _, _, _)
RawBlock(pv, od, bare, i) ==
  LET kids == ChildPositions(pv, i)
      own == IF i \in bare THEN {} ELSE {"uid", "string", "order", "heading"}
  IN RoamApiBlock(own \cup (IF kids = << >> /\ i \in bare THEN {} ELSE {"children"}),
                  IF i \in bare THEN "" ELSE EUids[i],
                  IF i \in bare THEN << >> ELSE <<"a">>,
                  IF i \in bare THEN 0 ELSE od[i],
                  IF i \in bare \/ i % 2 = 1 THEN NullHeading ELSE 2,
                  [k \in 1..Len(kids) |-> RawBlock(pv, od, bare, kids[k])])

RawPage(pv, od, bare) ==
  LET tops == ChildPositions(pv, 0)
  IN RoamApiBlock({"children"}, "", << >>, 0, NullHeading,
                  [k \in 1..Len(tops) |-> RawBlock(pv, od, bare, tops[k])])

RawPages ==
  {EmptyPage} \cup
  UNION {{RawPage(pv, od, bare) :
            pv \in Forests(n), od \in [1..n -> 0..MaxRawOrder], bare \in SUBSET (1..n)} :
         n \in 0..MaxRaw}

(***************************************************************************)
(* The GraphRegistry with its write guard.  A graph configuration is         *)
(* a record whose `fields' tells whether write_key is present; `configs'    *)
(* maps the configured keys to their configuration and `initialized' is the *)
(* set of the keys that hold a Graph instance.  Undefined stands for an     *)
(* argument that is left out.                                               *)
(***************************************************************************)
Undefined == "undefined"

WRITE_OPERATIONS ==
  {"roam_create_page", "roam_create_outline", "roam_import_markdown",
   "roam_process_batch_actions", "roam_add_todo", "roam_remember",
   "roam_create_table", "roam_move_block", "roam_update_page_markdown",
   "roam_rename_page"}

isWriteOperation(toolName) == toolName \in WRITE_OPERATIONS

defaultKey == "g1"

GraphConfig(graph, fields, write_key) ==
  [graph |-> graph, fields |-> fields, write_key |-> write_key]

\* the class McpError with ErrorCode.InvalidParams, and a returned Graph
InvalidParams(key) == [kind |-> "InvalidParams", key |-> key]
Graph(key) == [kind |-> "Graph", key |-> key]

\* !config.write_key
noWriteKey(config) == "write_key" \notin config.fields \/ config.write_key = ""

\* any provided key passes
isWriteAllowedAnyKey(cfgs, graphKey, providedWriteKey) ==
  LET resolvedKey == IF graphKey = Undefined THEN defaultKey ELSE graphKey
  IN IF resolvedKey = defaultKey THEN TRUE
     ELSE IF resolvedKey \notin DOMAIN cfgs THEN FALSE
     ELSE IF noWriteKey(cfgs[resolvedKey]) THEN TRUE
     ELSE providedWriteKey # Undefined

isWriteAllowed(cfgs, graphKey, providedWriteKey) ==
  LET resolvedKey == IF graphKey = Undefined THEN defaultKey ELSE graphKey
  IN IF resolvedKey = defaultKey THEN TRUE
     ELSE IF resolvedKey \notin DOMAIN cfgs THEN FALSE
     ELSE IF noWriteKey(cfgs[resolvedKey]) THEN TRUE
     ELSE providedWriteKey = cfgs[resolvedKey].write_key

\* TRUE when validateWriteAccess returns, FALSE when it throws the McpError
validateWriteAccess(cfgs, toolName, graphKey, providedWriteKey) ==
  LET resolvedKey == IF graphKey = Undefined THEN defaultKey ELSE graphKey
  IN IF ~isWriteOperation(toolName) THEN TRUE
     ELSE isWriteAllowed(cfgs, resolvedKey, providedWriteKey)

\* getGraph: the value or the error, and the map of the instances after it
getGraph(cfgs, inits, key) ==
  LET resolvedKey == IF key = Undefined THEN defaultKey ELSE key
  IN IF resolvedKey \in inits
       THEN [value |-> Graph(resolvedKey), initialized |-> inits]
     ELSE IF resolvedKey \notin DOMAIN cfgs
       THEN [value |-> InvalidParams(resolvedKey), initialized |-> inits]
     ELSE [value |-> Graph(resolvedKey), initialized |-> inits \cup {resolvedKey}]

resolveGraphForTool(cfgs, inits, toolName, graphKey, writeKey) ==
  IF ~validateWriteAccess(cfgs, toolName, graphKey, writeKey)
    THEN [value |-> InvalidParams(IF graphKey = Undefined THEN defaultKey ELSE graphKey),
          initialized |-> inits]
    ELSE getGraph(cfgs, inits, graphKey)

\* the calls: a write tool and a read tool, the three graph keys or none,
\* three keys or none
ToolNames == {"roam_create_page", "roam_fetch_page_by_title"}
GraphKeys == {"g1", "g2", "g3"}
WriteKeys == {"", "k1", "k2"}

\* the registries: g1 is the default graph, with or without write_key; g2 is
\* configured without write_key, with an empty one or with k1; g3 is not
\* configured or has the write_key k2
RegistryConfigs ==
  {[k \in {"g1", "g2"} \cup g3 |->
      IF k = "g1" THEN GraphConfig("graph1", f1, "k1")
      ELSE IF k = "g2" THEN c2
      ELSE GraphConfig("graph3", {"write_key"}, "k2")] :
     f1 \in {{}, {"write_key"}},
     c2 \in {GraphConfig("graph2", {}, ""), GraphConfig("graph2", {"write_key"}, ""),
             GraphConfig("graph2", {"write_key"}, "k1")},
     g3 \in {{}, {"g3"}}}

NoCall == [toolName |-> Undefined, graphKey |-> Undefined, writeKey |-> Undefined]
NoOutcome == [kind |-> Undefined, key |-> Undefined]

\* a registry of the default graph alone that is not called
RegistryUnused ==
  /\ configs = [k \in {defaultKey} |-> GraphConfig("graph1", {}, "")]
  /\ initialized = {}
  /\ call = NoCall
  /\ outcome = NoOutcome

(***************************************************************************)
(* The markdown parser (markdown-utils.ts parseMarkdown, from the split     *)
(* into lines on) and markdownToBlocks (diff/parser.ts).  A line is a       *)
(* sequence of characters.  The forest is the sequence of the nodes in the  *)
(* order of their creation; `parent' is the position of the node whose      *)
(* children array the node was pushed to, 0 for rootNodes.  The stack holds *)
(* positions of nodes, 0 in a slot that holds no node.                      *)
(***************************************************************************)
\* the character "~" stands for the backquote
Fence == <<"~", "~", "~">>

\* s.startsWith(prefix)
StartsWith(s, prefix) ==
  Len(s) >= Len(prefix) /\ SubSeq(s, 1, Len(prefix)) = prefix

\* s.indexOf(fence), the fence being three backquotes
indexOfFence(s) ==
  LET hits == {i \in 1..Len(s) : StartsWith(SubSeq(s, i, Len(s)), Fence)}
  IN IF hits = {} THEN -1 ELSE (CHOOSE i \in hits : \A j \in hits : i <= j) - 1

\* line.match(/^\s*/)[0]
indentationWhitespace(line) == SubSeq(line, 1, LeadingSpaces(line))

\* the pre-processing loop: a line with a fence after its first column is
\* split in two
RECURSIVE processedLines(_)
processedLines(originalLines) ==
  IF originalLines = << >> THEN << >>
  ELSE LET line == Head(originalLines)
           trimmedLine == TrimEnd(line)
           codeStartIndex == indexOfFence(trimmedLine)
       IN (IF codeStartIndex > 0
             THEN << indentationWhitespace(line) \o SubSeq(trimmedLine, 1, codeStartIndex),
                     indentationWhitespace(line)
                       \o SubSeq(trimmedLine, codeStartIndex + 1, Len(trimmedLine)) >>
             ELSE << line >>)
          \o processedLines(Tail(originalLines))

\* trimmedLine.match(/^(\s*)fence/)
isFenceLine(trimmedLine) == StartsWith(TrimStart(trimmedLine), Fence)

\* trimmedLine.match(/^(\s*)[-*+]\s+/): the length of the match, 0 for none
bulletMatch(trimmedLine) ==
  LET ws == LeadingSpaces(trimmedLine)
      rest == SubSeq(trimmedLine, ws + 1, Len(trimmedLine))
      gap == IF rest = << >> THEN 0 ELSE LeadingSpaces(Tail(rest))
  IN IF rest # << >> /\ Head(rest) \in {"-", "*", "+"} /\ gap >= 1
       THEN ws + 1 + gap
       ELSE 0

RECURSIVE LeadingHashes(_)
LeadingHashes(t) ==
  IF t # << >> /\ Head(t) = "#" THEN 1 + LeadingHashes(Tail(t)) ELSE 0

\* parseMarkdownHeadingLevel: text.match(/^(#{1,3})\s+(.+)$/)
parseMarkdownHeadingLevel(text) ==
  LET h == LeadingHashes(text)
      afterHashes == SubSeq(text, h + 1, Len(text))
      gap == LeadingSpaces(afterHashes)
      content == SubSeq(afterHashes, gap + 1, Len(afterHashes))
  IN IF h \in 1..3 /\ gap >= 1 /\ content # << >>
       THEN [heading_level |-> h, content |-> normalizeText(content)]
       ELSE [heading_level |-> 0, content |-> normalizeText(text)]

MarkdownNode(content, level, heading_level, parent) ==
  [content |-> content, level |-> level, heading_level |-> heading_level,
   parent |-> parent]

\* while (stack.length > n) stack.pop()
popTo(stack, n) == IF Len(stack) > n THEN SubSeq(stack, 1, n) ELSE stack

\* stack[i], 0 for undefined
slot(stack, i) == IF i >= 0 /\ i < Len(stack) THEN stack[i + 1] ELSE 0

\* stack[i] = node: the array grows with empty slots up to i
setSlot(stack, i, node) ==
  [k \in 1..(IF i + 1 > Len(stack) THEN i + 1 ELSE Len(stack)) |->
     IF k = i + 1 THEN node ELSE IF k <= Len(stack) THEN stack[k] ELSE 0]

\* the test of the level alone
startsNewRootAtLevelZero(stack, level) == level = 0

\* level === 0 || !stack[level - 1]
startsNewRoot(stack, level) == level = 0 \/ slot(stack, level - 1) = 0

\* the state of the loop over the processed lines
ParserStart ==
  [nodes |-> << >>, stack |-> << >>, inCodeBlock |-> FALSE, codeBlockLines |-> << >>,
   codeBlockIndentation |-> 0, codeBlockParentLevel |-> 0, raised |-> FALSE]

\* a regular line: the node is pushed to rootNodes or to the children of
\* stack[level - 1]; reading .children of an empty slot raises a TypeError
regularLine(st, line) ==
  LET trimmedLine == TrimEnd(line)
      matched == bulletMatch(trimmedLine)
      level == LeadingSpaces(IF matched > 0 THEN trimmedLine ELSE line) \div 2
      contentToParse == IF matched > 0
                          THEN SubSeq(trimmedLine, matched + 1, Len(trimmedLine))
                          ELSE trimmedLine
      parsedHeading == parseMarkdownHeadingLevel(contentToParse)
      popped == popTo(st.stack, level)
      node == Len(st.nodes) + 1
      asRoot == startsNewRoot(popped, level)
      parent == IF asRoot THEN 0 ELSE slot(popped, level - 1)
  IN IF ~asRoot /\ parent = 0
       THEN [st EXCEPT !.raised = TRUE]
       ELSE [st EXCEPT
               !.nodes = Append(@, MarkdownNode(parsedHeading.content, level,
                                                parsedHeading.heading_level, parent)),
               !.stack = setSlot(IF asRoot THEN setSlot(popped, 0, node) ELSE popped,
                                 level, node)]

\* codeLine.match(/^[\t ]*/)[0] of the first interior line that is not blank
RECURSIVE baseIndentation(_)
baseIndentation(interior) ==
  IF interior = << >> THEN << >>
  ELSE IF normalizeText(Head(interior)) # << >>
    THEN indentationWhitespace(Head(interior))
    ELSE baseIndentation(Tail(interior))

\* the map over linesInCodeBlock
processedCodeLines(linesInCodeBlock) ==
  LET n == Len(linesInCodeBlock)
      base == baseIndentation(SubSeq(linesInCodeBlock, 2, n - 1))
  IN [index \in 1..n |->
        LET codeLine == linesInCodeBlock[index]
        IN IF index = 1 \/ index = n THEN TrimStart(codeLine)
           ELSE IF normalizeText(codeLine) = << >> THEN << >>
           ELSE IF StartsWith(codeLine, base)
             THEN SubSeq(codeLine, Len(base) + 1, Len(codeLine))
           ELSE TrimStart(codeLine)]

\* lines.join('\n')
RECURSIVE joinLines(_)
joinLines(lines) ==
  IF lines = << >> THEN << >>
  ELSE IF Len(lines) = 1 THEN lines[1]
  ELSE lines[1] \o <<"\n">> \o joinLines(Tail(lines))

\* a fence line: it opens a code block, or closes it and adds its node.
\* codeBlockLines is codeBlockContent split at its line feeds.
fenceLine(st, line) ==
  LET trimmedLine == TrimEnd(line)
  IN IF ~st.inCodeBlock
       THEN [st EXCEPT !.inCodeBlock = TRUE,
                       !.codeBlockLines = << TrimStart(trimmedLine) >>,
                       !.codeBlockIndentation = LeadingSpaces(line),
                       !.codeBlockParentLevel = Len(st.stack)]
       ELSE LET linesInCodeBlock == Append(st.codeBlockLines, TrimStart(trimmedLine))
                level == st.codeBlockIndentation \div 2
                node == Len(st.nodes) + 1
                atParent == popTo(st.stack, st.codeBlockParentLevel)
                popped == popTo(atParent, level)
                parent == IF level = 0 THEN 0 ELSE slot(popped, level - 1)
            IN [st EXCEPT
                  !.inCodeBlock = FALSE,
                  !.codeBlockLines = << >>,
                  !.nodes = Append(@, MarkdownNode(
                                        joinLines(processedCodeLines(linesInCodeBlock)),
                                        level, 0, parent)),
                  !.stack = setSlot(popped, level, node)]

\* the loop body without the skip of blank lines
parseLineBlankKept(st, line) ==
  IF st.raised THEN st
  ELSE IF isFenceLine(TrimEnd(line)) THEN fenceLine(st, line)
  ELSE IF st.inCodeBlock THEN [st EXCEPT !.codeBlockLines = Append(@, line)]
  ELSE regularLine(st, line)

\* the body of the loop over the processed lines
parseLine(st, line) ==
  IF st.raised THEN st
  ELSE IF isFenceLine(TrimEnd(line)) THEN fenceLine(st, line)
  ELSE IF st.inCodeBlock THEN [st EXCEPT !.codeBlockLines = Append(@, line)]
  ELSE IF TrimEnd(line) = << >> THEN st
  ELSE regularLine(st, line)

RECURSIVE parseLines(_, _)
parseLines(st, lines) ==
  IF lines = << >> THEN st ELSE parseLines(parseLine(st, Head(lines)), Tail(lines))

\* the final state of the parser on the lines of the document
parseMarkdown(originalLines) == parseLines(ParserStart, processedLines(originalLines))

\* the positions of the children of node p (of rootNodes for 0), in order
childNodes(forest, p) ==
  SelectSeq([i \in 1..Len(forest) |-> i], LAMBDA i : forest[i].parent = p)

\* the nodes of the list visited before the children of its first node
RECURSIVE visitOrderSiblingsFirst(_, _)
visitOrderSiblingsFirst(forest, list) ==
  IF list = << >> THEN << >>
  ELSE << Head(list) >> \o visitOrderSiblingsFirst(forest, Tail(list))
         \o visitOrderSiblingsFirst(forest, childNodes(forest, Head(list)))

\* the depth-first order of processNode over the nodes in list
RECURSIVE visitOrder(_, _)
visitOrder(forest, list) ==
  IF list = << >> THEN << >>
  ELSE << Head(list) >> \o visitOrder(forest, childNodes(forest, Head(list)))
         \o visitOrder(forest, Tail(list))

\* markdownToBlocks; generateBlockUid gives the k-th block the fresh uid
\* Refs[k]
markdownToBlocks(forest) ==
  LET visited == visitOrder(forest, childNodes(forest, 0))
      refOf(node) == Refs[IndexOf(visited, node) + 1]
  IN [k \in 1..Len(visited) |->
        LET node == forest[visited[k]]
        IN NewBlock(Refs[k], node.content,
                    IF node.parent = 0 THEN parentUid ELSE refOf(node.parent),
                    IndexOf(childNodes(forest, node.parent), visited[k]),
                    IF node.heading_level > 0 THEN node.heading_level ELSE NullHeading)]

\* no document
MarkdownUnused == markdown = << >> /\ nodes = << >>

\* the lines of the documents: text at the levels 0, 1 and 2, a bullet, a
\* heading, a blank line and a fence
Lines ==
  { <<"a">>, <<" ", " ", "b">>, <<" ", " ", " ", " ", "a">>, <<"-", " ", "b">>,
    <<"#", " ", "a">>, << >>, Fence }

\* the lines between the markers of a fence
InteriorLines == { <<"a">>, <<" ", " ", "b">>, <<" ", " ", " ", " ", "a">>, << >> }

\* a fence with MaxInterior lines at most between its markers
FencedDocuments ==
  UNION {{ <<Fence>> \o interior \o <<Fence>> : interior \in [1..n -> InteriorLines]} :
         n \in 0..MaxInterior}

\* regular lines of the levels 0, 1 and 2
RegularLines == { <<"a">>, <<" ", " ", "b">>, <<" ", " ", " ", " ", "a">> }

\* the indentations of a fence marker
Indentations == { << >>, <<" ", " ">>, <<" ", " ", " ", " ">> }

\* an indented fence that closes at once, with MaxAround regular lines at
\* most before it and after it
AttachedFenceDocuments ==
  UNION {{ before \o << indentation \o Fence, indentation \o Fence >> \o after :
             before \in [1..p -> RegularLines], after \in [1..q -> RegularLines],
             indentation \in Indentations} :
         p \in 0..MaxAround, q \in 0..MaxAround}

Documents ==
  UNION {[1..n -> Lines] : n \in 0..MaxLines}
  \cup FencedDocuments \cup AttachedFenceDocuments

\* the existing pages of the documents: siblings of one text that no
\* document has
OldText == { <<"x">> }

OldTrees ==
  UNION {{ExistingTree(pv, tx, hd) :
            pv \in FlatForests(n), tx \in [1..n -> OldText], hd \in NoHeadings(n)} :
         n \in 0..MaxOld}

\* flat existing lists against desired lists whose nodes name the page or
\* an unknown identifier as parent
UnknownParentTrees ==
  UNION {{ExistingTree(pv, tx, hd) :
            pv \in FlatForests(n), tx \in [1..n -> PlainTexts], hd \in NoHeadings(n)} :
         n \in 0..MaxUnknown}

UnknownParentLists ==
  UNION {{[i \in 1..n |->
             NewBlock(Refs[i], tx[i], pr[i],
                      Cardinality({j \in 1..(i - 1) : pr[j] = pr[i]}), NullHeading)] :
            tx \in [1..n -> PlainTexts], pr \in [1..n -> {parentUid, UnknownUid}]} :
         n \in 0..MaxUnknown}

UnknownParentInputs == UnknownParentTrees \X UnknownParentLists

\* nested trees against nested desired lists whose top-level nodes have a
\* null parentRef or name the page
NullParentLists ==
  UNION {{[i \in 1..n |->
             NewBlock(Refs[i], tx[i],
                      IF pv[i] # 0 THEN Refs[pv[i]]
                      ELSE IF i \in nulls THEN NullUid ELSE parentUid,
                      SiblingIndex(pv, i), NullHeading)] :
            pv \in Forests(n), tx \in [1..n -> PlainTexts], nulls \in SUBSET (1..n)} :
         n \in 0..MaxDesired}

NullParentInputs == ShapeTrees \X NullParentLists

(***************************************************************************)
(* The state machine: one synchronisation pass.                            *)
(***************************************************************************)
Init ==
  /\ \E input \in Inputs : existing = input[1] /\ newBlocks = input[2]
  /\ pc = "input"
  /\ matches = EmptyMap
  /\ result = EmptyResult
  /\ actions = << >>
  /\ next = 1
  /\ store = InitialStore(existing)
  /\ rejected = {}
  /\ pageData = EmptyPage
  /\ parsed = << >>
  /\ RegistryUnused
  /\ MarkdownUnused

\* a pass whose desired list may name an unknown parent
InitUnknownParent ==
  /\ \E input \in UnknownParentInputs : existing = input[1] /\ newBlocks = input[2]
  /\ pc = "input"
  /\ matches = EmptyMap
  /\ result = EmptyResult
  /\ actions = << >>
  /\ next = 1
  /\ store = InitialStore(existing)
  /\ rejected = {}
  /\ pageData = EmptyPage
  /\ parsed = << >>
  /\ RegistryUnused
  /\ MarkdownUnused

\* a pass whose desired list may hold a null parentRef
InitNullParent ==
  /\ \E input \in NullParentInputs : existing = input[1] /\ newBlocks = input[2]
  /\ pc = "input"
  /\ matches = EmptyMap
  /\ result = EmptyResult
  /\ actions = << >>
  /\ next = 1
  /\ store = InitialStore(existing)
  /\ rejected = {}
  /\ pageData = EmptyPage
  /\ parsed = << >>
  /\ RegistryUnused
  /\ MarkdownUnused

\* the adapter before its call: a raw snapshot of the page
InitAdapter ==
  /\ pageData \in RawPages
  /\ parsed = << >>
  /\ pc = "raw"
  /\ existing = ExistingTree(<< >>, << >>, << >>)
  /\ newBlocks = << >>
  /\ matches = EmptyMap
  /\ result = EmptyResult
  /\ actions = << >>
  /\ next = 1
  /\ store = InitialStore(existing)
  /\ rejected = {}
  /\ RegistryUnused
  /\ MarkdownUnused

ParseExistingBlocks ==
  /\ pc = "raw"
  /\ parsed' = parseExistingBlocks(pageData)
  /\ pc' = "parsed"
  /\ UNCHANGED <<existing, newBlocks, matches, result, actions, next, store, rejected>>
  /\ UNCHANGED <<pageData, registryVars, markdownVars>>

\* new GraphRegistry(configs, defaultKey)
InitRegistry ==
  /\ configs \in RegistryConfigs
  /\ initialized = {}
  /\ call = NoCall
  /\ outcome = NoOutcome
  /\ pc = "registry"
  /\ existing = ExistingTree(<< >>, << >>, << >>)
  /\ newBlocks = << >>
  /\ matches = EmptyMap
  /\ result = EmptyResult
  /\ actions = << >>
  /\ next = 1
  /\ store = InitialStore(existing)
  /\ rejected = {}
  /\ pageData = EmptyPage
  /\ parsed = << >>
  /\ MarkdownUnused

ResolveGraphForTool ==
  /\ pc = "registry"
  /\ \E toolName \in ToolNames, graphKey \in GraphKeys \cup {Undefined},
        writeKey \in WriteKeys \cup {Undefined} :
       LET r == resolveGraphForTool(configs, initialized, toolName, graphKey, writeKey)
       IN /\ call' = [toolName |-> toolName, graphKey |-> graphKey, writeKey |-> writeKey]
          /\ outcome' = r.value
          /\ initialized' = r.initialized
  /\ UNCHANGED <<configs, passVars, adapterVars, markdownVars>>

\* a pass that starts from the markdown document
InitMarkdown ==
  /\ markdown \in Documents
  /\ nodes = << >>
  /\ existing \in OldTrees
  /\ newBlocks = << >>
  /\ pc = "markdown"
  /\ matches = EmptyMap
  /\ result = EmptyResult
  /\ actions = << >>
  /\ next = 1
  /\ store = InitialStore(existing)
  /\ rejected = {}
  /\ pageData = EmptyPage
  /\ parsed = << >>
  /\ RegistryUnused

\* parseMarkdown returns its forest, or the TypeError leaves the pass
ParseMarkdown ==
  /\ pc = "markdown"
  /\ LET st == parseMarkdown(markdown)
     IN nodes' = st.nodes /\ pc' = IF st.raised THEN "raised" ELSE "nodes"
  /\ UNCHANGED <<existing, newBlocks, matches, result, actions, next, store, rejected>>
  /\ UNCHANGED <<markdown, adapterVars, registryVars>>

MarkdownToBlocks ==
  /\ pc = "nodes"
  /\ newBlocks' = markdownToBlocks(nodes)
  /\ pc' = "input"
  /\ UNCHANGED <<existing, matches, result, actions, next, store, rejected>>
  /\ UNCHANGED <<markdownVars, adapterVars, registryVars>>

\* the caller of matchBlocks
MatchBlocks ==
  /\ pc = "input"
  /\ matches' = matchBlocks(flattenExistingBlocks(existing), newBlocks)
  /\ pc' = "matched"
  /\ UNCHANGED <<existing, newBlocks, result, actions, next, store, rejected>>
  /\ UNCHANGED <<adapterVars, registryVars, markdownVars>>

DiffBlockTrees ==
  /\ pc = "matched"
  /\ result' = diffBlockTrees(existing, newBlocks)
  /\ pc' = "diffed"
  /\ UNCHANGED <<existing, newBlocks, matches, actions, next, store, rejected>>
  /\ UNCHANGED <<adapterVars, registryVars, markdownVars>>

GenerateBatchActions ==
  /\ pc = "diffed"
  /\ actions' = generateBatchActions(result).actions
  /\ result' = generateBatchActions(result).diff
  /\ next' = 1
  /\ pc' = "executing"
  /\ UNCHANGED <<existing, newBlocks, matches, store, rejected>>
  /\ UNCHANGED <<adapterVars, registryVars, markdownVars>>

Executing(kind) ==
  /\ pc = "executing"
  /\ next <= Len(actions)
  /\ actions[next].action = kind

Step(can, after) ==
  /\ IF can THEN store' = after /\ rejected' = rejected
            ELSE store' = store /\ rejected' = rejected \cup {next}
  /\ next' = next + 1
  /\ UNCHANGED <<pc, existing, newBlocks, matches, result, actions>>
  /\ UNCHANGED <<adapterVars, registryVars, markdownVars>>

ExecCreate ==
  /\ Executing("create-block")
  /\ Step(CanCreate(store, actions[next]), StoreCreate(store, actions[next]))

ExecMove ==
  /\ Executing("move-block")
  /\ Step(CanMove(store, actions[next]), StoreMove(store, actions[next]))

ExecUpdate ==
  /\ Executing("update-block")
  /\ Step(CanUpdate(store, actions[next]), StoreUpdate(store, actions[next]))

ExecDelete ==
  /\ Executing("delete-block")
  /\ Step(CanDelete(store, actions[next]), StoreDelete(store, actions[next]))

Complete ==
  /\ pc = "executing"
  /\ next > Len(actions)
  /\ pc' = "done"
  /\ UNCHANGED <<existing, newBlocks, matches, result, actions, next, store, rejected>>
  /\ UNCHANGED <<adapterVars, registryVars, markdownVars>>

Next ==
  \/ MatchBlocks
  \/ DiffBlockTrees
  \/ GenerateBatchActions
  \/ ExecCreate
  \/ ExecMove
  \/ ExecUpdate
  \/ ExecDelete
  \/ Complete

Spec == Init /\ [][Next]_vars

SpecUnknownParent == InitUnknownParent /\ [][Next]_vars

SpecNullParent == InitNullParent /\ [][Next]_vars

NextAdapter == ParseExistingBlocks

SpecAdapter == InitAdapter /\ [][NextAdapter]_vars

NextMarkdown ==
  \/ ParseMarkdown
  \/ MarkdownToBlocks
  \/ MatchBlocks
  \/ DiffBlockTrees
  \/ GenerateBatchActions
  \/ ExecCreate
  \/ ExecMove
  \/ ExecUpdate
  \/ ExecDelete
  \/ Complete

SpecMarkdown == InitMarkdown /\ [][NextMarkdown]_vars

NextRegistry == ResolveGraphForTool

SpecRegistry == InitRegistry /\ [][NextRegistry]_vars

(***************************************************************************)
(* Notions used by the properties.                                         *)
(***************************************************************************)
Diffed == pc \in {"diffed", "executing", "done"}

ExistingFlat == flattenExistingBlocks(existing)
ExistingUids == LET flat == ExistingFlat IN {flat[i].uid : i \in 1..Len(flat)}
DesiredRefs == {newBlocks[i].ref : i \in 1..Len(newBlocks)}
MatchedUids == {matches[r] : r \in DOMAIN matches}

\* the block that stands for desired node b after the pass
Corresponding(b) == IF b.ref \in DOMAIN matches THEN matches[b.ref] ELSE b.ref

\* the parent of desired node b under that correspondence
CorrespondingParent(b) ==
  IF b.parentRef = parentUid THEN parentUid
  ELSE LET p == CHOOSE p \in 1..Len(newBlocks) : newBlocks[p].ref = b.parentRef
       IN Corresponding(newBlocks[p])

\* the desired children of block u, in document order
DesiredChildren(u) ==
  LET group == SelectSeq(newBlocks, LAMBDA b : CorrespondingParent(b) = u)
  IN [k \in 1..Len(group) |-> Corresponding(group[k])]

HeadingRead(h) == IF h = 0 THEN NullHeading ELSE h

\* a is a proper ancestor of c in the existing tree
RECURSIVE ExistingAncestor(_, _)
ExistingAncestor(a, c) ==
  LET p == existing.block[c].parentUid
  IN IF p = NullUid THEN FALSE ELSE p = a \/ ExistingAncestor(a, p)

PositionsOf(seq, uid) == {k \in 1..Len(seq) : seq[k].uid = uid}

C2_ChildrenInDesiredOrder ==
  pc = "done" => \A u \in DOMAIN store.kids : store.kids[u] = DesiredChildren(u)

\* the desired list restates the existing tree
Restates ==
  /\ Len(newBlocks) = Len(ExistingFlat)
  /\ \A i \in 1..Len(newBlocks) :
       /\ newBlocks[i].text = ExistingFlat[i].text
       /\ newBlocks[i].heading = ExistingFlat[i].heading
       /\ newBlocks[i].order = ExistingFlat[i].order
       /\ IF ExistingFlat[i].parentUid = NullUid
            THEN newBlocks[i].parentRef = parentUid
            ELSE \E j \in 1..Len(newBlocks) :
                   /\ ExistingFlat[j].uid = ExistingFlat[i].parentUid
                   /\ newBlocks[i].parentRef = newBlocks[j].ref

\* C3: the diff of a tree against the list that restates it is empty and
\* preserves every existing uid.
C3_Idempotence ==
  (Diffed /\ Restates) =>
    /\ result.creates = << >>
    /\ result.updates = << >>
    /\ result.moves = << >>
    /\ result.deletes = << >>
    /\ result.preservedUids = ExistingUids

\* C4: the match mapping is injective, its keys are refs of desired nodes
\* and its values uids of existing blocks.
C4_MatchInjective ==
  pc # "input" =>
    /\ DOMAIN matches \subseteq DesiredRefs
    /\ MatchedUids \subseteq ExistingUids
    /\ \A r1, r2 \in DOMAIN matches : r1 # r2 => matches[r1] # matches[r2]

C4_Witness ==
  /\ pc = "matched"
  /\ Cardinality(DOMAIN matches) >= 2
  /\ \E i, j \in 1..Len(ExistingFlat) :
       i # j /\ normalizeForMatching(ExistingFlat[i].text) = normalizeForMatching(ExistingFlat[j].text)
  /\ \E i, j \in 1..Len(newBlocks) :
       /\ i # j
       /\ newBlocks[i].ref \in DOMAIN matches
       /\ newBlocks[j].ref \in DOMAIN matches
       /\ normalizeForMatching(newBlocks[i].text) = normalizeForMatching(newBlocks[j].text)
       /\ normalizeText(newBlocks[i].text) # normalizeText(newBlocks[j].text)

\* C5: preservedUids is exactly the image of the match mapping.
C5_PreservedIsImage ==
  Diffed => result.preservedUids = MatchedUids

C5_Witness ==
  /\ pc = "diffed"
  /\ \E k \in 1..Len(result.updates) : result.updates[k].uid \in result.preservedUids
  /\ \E k \in 1..Len(result.moves) : result.moves[k].uid \in result.preservedUids
  /\ \E u \in MatchedUids :
       PositionsOf(result.updates, u) = {} /\ PositionsOf(result.moves, u) = {}
  /\ ExistingUids \ MatchedUids # {}

\* C6: every existing uid outside the image of the match mapping is deleted
\* exactly once and no uid of the image is deleted.
C6_DeleteCompleteness ==
  Diffed =>
    /\ \A u \in ExistingUids \ MatchedUids : Cardinality(PositionsOf(result.deletes, u)) = 1
    /\ \A k \in 1..Len(result.deletes) :
         /\ result.deletes[k].action = "delete-block"
         /\ result.deletes[k].uid \in ExistingUids \ MatchedUids

C6_Witness ==
  /\ pc = "diffed"
  /\ MatchedUids # {}
  /\ \E k \in 1..Len(result.deletes) :
       existing.block[result.deletes[k].uid].parentUid # NullUid

\* C7: every unmatched desired node has exactly one create, which carries
\* its ref, its resolved desired parent and its index in that sibling
\* group; a matched node has none.
C7_CreateCompleteness ==
  Diffed =>
    /\ Len(result.creates) = Len(newBlocks) - Cardinality(DOMAIN matches)
    /\ \A i \in 1..Len(newBlocks) :
         LET b == newBlocks[i]
             at == PositionsOf(result.creates, b.ref)
         IN IF b.ref \in DOMAIN matches THEN at = {}
            ELSE /\ Cardinality(at) = 1
                 /\ \A k \in at :
                      /\ result.creates[k].action = "create-block"
                      /\ result.creates[k].parent = CorrespondingParent(b)
                      /\ result.creates[k].order =
                           IndexOf(DesiredChildren(CorrespondingParent(b)), b.ref)

C7_Witness ==
  /\ pc = "diffed"
  /\ \E k \in 1..Len(result.creates) : result.creates[k].parent \in MatchedUids
  /\ \E k \in 1..Len(result.creates) : result.creates[k].parent \in DesiredRefs

DeletePositions(uid) ==
  {k \in 1..Len(actions) : actions[k].action = "delete-block" /\ actions[k].uid = uid}

\* C8: in the serialized batch the delete of a block comes before the
\* delete of each of its existing ancestors.
C8_DeleteChildFirst ==
  pc \in {"executing", "done"} =>
    \A p, c \in ExistingUids \ MatchedUids :
      ExistingAncestor(p, c) =>
        \A i \in DeletePositions(c), j \in DeletePositions(p) : i < j

C8_Witness ==
  /\ pc = "executing"
  /\ \E p, c \in ExistingUids :
       /\ ExistingAncestor(p, c)
       /\ DeletePositions(p) # {}
       /\ DeletePositions(c) # {}

\* C9: the batch is the creates, then the moves, then the updates, then
\* the deletes in reversed order, each action as it is in the DiffResult,
\* and the call leaves the DiffResult as it was.
C9_Serialization ==
  [][pc = "diffed" =>
       LET c == Len(result.creates)
           m == Len(result.moves)
           u == Len(result.updates)
           d == Len(result.deletes)
       IN /\ Len(actions') = c + m + u + d
          /\ \A k \in 1..c : actions'[k] = result.creates[k]
          /\ \A k \in 1..m : actions'[c + k] = result.moves[k]
          /\ \A k \in 1..u : actions'[c + m + k] = result.updates[k]
          /\ \A k \in 1..d : actions'[c + m + u + k] = result.deletes[d + 1 - k]
          /\ result' = result]_vars

C9_Witness ==
  /\ pc = "executing"
  /\ Len(result.creates) > 0
  /\ Len(result.moves) > 0
  /\ Len(result.deletes) > 1

\* C10: a matched node without heading whose block has a heading gets an
\* update with heading 0; a matched node with a heading that differs from
\* the heading of its block gets an update with the heading of the node.
C10_HeadingSentinel ==
  Diffed =>
    \A i \in 1..Len(newBlocks) :
      LET b == newBlocks[i] IN
      b.ref \in DOMAIN matches =>
        LET exist == existing.block[matches[b.ref]]
            at == PositionsOf(result.updates, exist.uid)
        IN /\ (b.heading = NullHeading /\ exist.heading # NullHeading) =>
                /\ at # {}
                /\ \A k \in at : "heading" \in result.updates[k].fields
                                 /\ result.updates[k].heading = 0
           /\ (b.heading # NullHeading /\ b.heading # exist.heading) =>
                /\ at # {}
                /\ \A k \in at : "heading" \in result.updates[k].fields
                                 /\ result.updates[k].heading = b.heading

C10_Witness ==
  /\ pc = "diffed"
  /\ \E i \in 1..Len(newBlocks) :
       /\ newBlocks[i].ref \in DOMAIN matches
       /\ newBlocks[i].heading = NullHeading
       /\ existing.block[matches[newBlocks[i].ref]].heading = 2
  /\ \E i \in 1..Len(newBlocks) :
       /\ newBlocks[i].ref \in DOMAIN matches
       /\ newBlocks[i].heading = 1
       /\ existing.block[matches[newBlocks[i].ref]].heading = 2

\* the state of matchBlocks after phases 1 and 2
AfterPhase2 ==
  LET flat == ExistingFlat
  IN phase2(flat, newBlocks, 1,
            phase1(flat, newBlocks, 1, [matches |-> EmptyMap, usedExisting |-> {}]))

UnmatchedNew(st) == SelectSeq(newBlocks, LAMBDA b : b.ref \notin DOMAIN st.matches)

UnmatchedExisting(st) == SelectSeq(ExistingFlat, LAMBDA e : e.uid \notin st.usedExisting)

\* C11: phase 3 pairs blocks exactly when at most 3 desired nodes and at
\* most 3 existing blocks are unmatched after phases 1 and 2; it then pairs
\* the unmatched desired nodes in document order with the unmatched existing
\* blocks of lowest order, in ascending order, until one side is exhausted.
C11_PositionFallback ==
  pc = "matched" =>
    LET p2 == AfterPhase2
        un == UnmatchedNew(p2)
        ue == UnmatchedExisting(p2)
        k == Min(Len(un), Len(ue))
        paired == {un[i].ref : i \in 1..k}
        image == MatchedUids
    IN IF Len(un) <= 3 /\ Len(ue) <= 3
         THEN /\ DOMAIN matches = DOMAIN p2.matches \cup paired
              /\ \A r \in DOMAIN p2.matches : matches[r] = p2.matches[r]
              /\ \A i \in 1..k : \E j \in 1..Len(ue) : ue[j].uid = matches[un[i].ref]
              /\ \A i, j \in 1..k :
                   i < j => existing.block[matches[un[i].ref]].order
                              <= existing.block[matches[un[j].ref]].order
              /\ \A i \in 1..k : \A j \in 1..Len(ue) :
                   ue[j].uid \notin image
                     => existing.block[matches[un[i].ref]].order <= ue[j].order
         ELSE matches = p2.matches

C11_Witness ==
  /\ pc = "matched"
  /\ Len(UnmatchedNew(AfterPhase2)) = 3
  /\ Len(UnmatchedExisting(AfterPhase2)) = 3
  /\ Cardinality(DOMAIN matches) = 3
  /\ \E i, j \in 1..3 :
       i < j /\ UnmatchedExisting(AfterPhase2)[i].order > UnmatchedExisting(AfterPhase2)[j].order

\* the existing blocks are siblings under the page and the desired list is
\* flat, of the same length
FlatPair ==
  /\ Len(existing.roots) = Len(ExistingFlat)
  /\ Len(newBlocks) = Len(ExistingFlat)
  /\ \A i \in 1..Len(newBlocks) : newBlocks[i].parentRef = parentUid

\* the bijections between the positions of the desired list and the
\* positions of the existing sibling list that carry equal text and heading
Reorderings ==
  LET n == Len(ExistingFlat)
  IN {p \in [1..n -> 1..n] :
        /\ \A i, j \in 1..n : i # j => p[i] # p[j]
        /\ \A i \in 1..n : /\ newBlocks[i].text = ExistingFlat[p[i]].text
                           /\ newBlocks[i].heading = ExistingFlat[p[i]].heading}

DistinctTexts ==
  \A i, j \in 1..Len(ExistingFlat) :
    i # j => ExistingFlat[i].text # ExistingFlat[j].text

DistinctTrimmedTexts ==
  \A i, j \in 1..Len(ExistingFlat) :
    i # j => normalizeText(ExistingFlat[i].text) # normalizeText(ExistingFlat[j].text)

IsIdentity(p) == \A i \in DOMAIN p : p[i] = i

PureReorder ==
  /\ result.creates = << >>
  /\ result.deletes = << >>
  /\ result.updates = << >>
  /\ result.preservedUids = ExistingUids
  /\ (\E p \in Reorderings : ~IsIdentity(p)) => result.moves # << >>

\* C12 as stated: a desired top-level list that is a permutation of a flat
\* existing sibling list with pairwise distinct texts gives no create, no
\* delete, no update, preserves every uid and has a move unless the
\* permutation is the identity.
C12_PureReorderDistinctTexts ==
  (Diffed /\ FlatPair /\ DistinctTexts /\ Reorderings # {}) => PureReorder

\* C12: the same, for a sibling list whose texts are pairwise distinct after
\* trimming.
C12_PureReorder ==
  (Diffed /\ FlatPair /\ DistinctTrimmedTexts /\ Reorderings # {}) => PureReorder

C12_Witness ==
  /\ pc = "diffed"
  /\ FlatPair
  /\ DistinctTrimmedTexts
  /\ Len(ExistingFlat) = 3
  /\ \E p \in Reorderings : \A i \in 1..3 : p[i] # i
  /\ result.moves # << >>
  /\ result.preservedUids = ExistingUids

\* the parentRef of desired node b names nothing known
UnknownParent(b) ==
  b.parentRef \notin {NullUid, parentUid} \cup DesiredRefs \cup ExistingUids

\* C13: when the parentRef of a desired node names neither the page, a
\* desired ref nor an existing uid, the result of diffBlockTrees has no
\* operation that places the node, or moves its matched block, under that
\* unknown parent (an error is surfaced instead).
C13_UnknownParentSurfaced ==
  Diffed =>
    \A i \in 1..Len(newBlocks) :
      UnknownParent(newBlocks[i]) =>
        /\ \A c \in 1..Len(result.creates) :
             ~(result.creates[c].uid = newBlocks[i].ref
               /\ result.creates[c].parent = newBlocks[i].parentRef)
        /\ \A m \in 1..Len(result.moves) :
             ~(result.moves[m].uid = Corresponding(newBlocks[i])
               /\ result.moves[m].parent = newBlocks[i].parentRef)

\* the state of matchBlocks after phase 1
AfterPhase1 ==
  phase1(ExistingFlat, newBlocks, 1, [matches |-> EmptyMap, usedExisting |-> {}])

\* the existing blocks paired by phase 1 before the turn of desired node i
UsedBeforeTurn(p1, i) ==
  {p1.matches[newBlocks[j].ref] :
     j \in {k \in 1..(i - 1) : newBlocks[k].ref \in DOMAIN p1.matches}}

\* the phase-1 candidates of desired node i at its turn, in flattened order
CandidatesAtTurn(p1, flat, i) ==
  LET used == UsedBeforeTurn(p1, i)
      text == normalizeText(newBlocks[i].text)
  IN SelectSeq(flat, LAMBDA e : normalizeText(e.text) = text /\ e.uid \notin used)

\* C17: a desired node with several unused candidates of its trimmed text
\* is paired with the candidate whose order is closest to the node's index
\* in the desired list, and among the closest ones with the one that comes
\* first in the flattened existing list.
C17_Phase1FirstFound ==
  pc = "matched" =>
    LET p1 == AfterPhase1
        flat == ExistingFlat
    IN \A i \in 1..Len(newBlocks) :
         LET cands == CandidatesAtTurn(p1, flat, i)
             dist(e) == Abs(e.order - (i - 1))
         IN cands # << >> =>
              /\ newBlocks[i].ref \in DOMAIN matches
              /\ \E k \in 1..Len(cands) :
                   /\ cands[k].uid = matches[newBlocks[i].ref]
                   /\ \A j \in 1..Len(cands) : dist(cands[k]) <= dist(cands[j])
                   /\ \A j \in 1..(k - 1) : dist(cands[j]) > dist(cands[k])

\* C18: the three phases run one after the other, each pairing only desired
\* nodes and existing blocks not paired earlier: the pairs of a phase stay,
\* a later phase takes blocks unused until then, a desired node with an
\* unused block of equal trimmed text at its phase-1 turn is paired with a
\* block of equal trimmed text, and a node paired in phase 2 has equal text
\* after prefix stripping.
C18_PhasePrecedence ==
  pc = "matched" =>
    LET flat == ExistingFlat
        p1 == AfterPhase1
        p2 == phase2(flat, newBlocks, 1, p1)
    IN /\ \A r \in DOMAIN p1.matches :
            r \in DOMAIN p2.matches /\ p2.matches[r] = p1.matches[r]
       /\ \A r \in DOMAIN p2.matches :
            r \in DOMAIN matches /\ matches[r] = p2.matches[r]
       /\ \A i \in 1..Len(newBlocks) :
            LET b == newBlocks[i]
                cands == CandidatesAtTurn(p1, flat, i)
            IN /\ cands # << >> =>
                    /\ b.ref \in DOMAIN matches
                    /\ normalizeText(existing.block[matches[b.ref]].text)
                         = normalizeText(b.text)
               /\ (b.ref \in DOMAIN matches /\ b.ref \notin DOMAIN p1.matches) =>
                    /\ matches[b.ref] \notin p1.usedExisting
                    /\ normalizeText(existing.block[matches[b.ref]].text)
                         # normalizeText(b.text) => cands = << >>
               /\ (b.ref \in DOMAIN p2.matches /\ b.ref \notin DOMAIN p1.matches) =>
                    normalizeForMatching(existing.block[matches[b.ref]].text)
                      = normalizeForMatching(b.text)
               /\ (b.ref \in DOMAIN matches /\ b.ref \notin DOMAIN p2.matches) =>
                    matches[b.ref] \notin p2.usedExisting

\* an exact candidate wins over a closer block that matches only after
\* prefix stripping, and another node is paired in phase 2
C18_Witness ==
  /\ pc = "matched"
  /\ \E i \in 1..Len(newBlocks) :
       /\ CandidatesAtTurn(AfterPhase1, ExistingFlat, i) # << >>
       /\ normalizeText(existing.block[matches[newBlocks[i].ref]].text)
            = normalizeText(newBlocks[i].text)
       /\ \E k \in 1..Len(ExistingFlat) :
            /\ ExistingFlat[k].uid \notin UsedBeforeTurn(AfterPhase1, i)
            /\ normalizeText(ExistingFlat[k].text) # normalizeText(newBlocks[i].text)
            /\ normalizeForMatching(ExistingFlat[k].text)
                 = normalizeForMatching(newBlocks[i].text)
            /\ Abs(ExistingFlat[k].order - (i - 1))
                 < Abs(existing.block[matches[newBlocks[i].ref]].order - (i - 1))
  /\ DOMAIN AfterPhase2.matches # DOMAIN AfterPhase1.matches

\* C19: at the return of matchBlocks no unmatched desired node and unmatched
\* existing block have equal texts after trimming and stripping a leading
\* numbered-list prefix, and the same holds right after phase 2.
C19_MatchMaximality ==
  pc = "matched" =>
    LET flat == ExistingFlat
        image == MatchedUids
        p2 == AfterPhase2
        un == UnmatchedNew(p2)
        ue == UnmatchedExisting(p2)
        newKey == [i \in 1..Len(newBlocks) |-> normalizeForMatching(newBlocks[i].text)]
        oldKey == [k \in 1..Len(flat) |-> normalizeForMatching(flat[k].text)]
    IN /\ \A i \in 1..Len(newBlocks) : \A k \in 1..Len(flat) :
            (newBlocks[i].ref \notin DOMAIN matches /\ flat[k].uid \notin image)
              => newKey[i] # oldKey[k]
       /\ \A i \in 1..Len(un) : \A k \in 1..Len(ue) :
            normalizeForMatching(un[i].text) # normalizeForMatching(ue[k].text)

\* a desired node "1. a" is paired with an existing block "a" in phase 2
C19_Witness ==
  /\ pc = "matched"
  /\ \E i \in 1..Len(newBlocks) :
       /\ newBlocks[i].ref \in DOMAIN AfterPhase2.matches
       /\ newBlocks[i].ref \notin DOMAIN AfterPhase1.matches
       /\ newBlocks[i].text = <<"1", ".", " ", "a">>
       /\ existing.block[matches[newBlocks[i].ref]].text = <<"a">>

\* the positions of the updates of block u in the result
UpdatesOf(u) == {k \in 1..Len(result.updates) : result.updates[k].uid = u}

\* C20: every matched desired node has at most one update; it has one
\* exactly when the trimmed texts differ or the headings differ; the update
\* carries the string exactly when the trimmed texts differ and the heading
\* exactly when the headings differ, and nothing else; every update belongs
\* to a matched node.
C20_UpdatePayload ==
  pc = "diffed" =>
    /\ \A k \in 1..Len(result.updates) : result.updates[k].uid \in MatchedUids
    /\ \A i \in 1..Len(newBlocks) :
         newBlocks[i].ref \in DOMAIN matches =>
           LET b == newBlocks[i]
               e == existing.block[matches[b.ref]]
               textDiffers == normalizeText(b.text) # normalizeText(e.text)
               headingDiffers == b.heading # e.heading
           IN /\ Cardinality(UpdatesOf(e.uid)) <= 1
              /\ UpdatesOf(e.uid) # {} <=> (textDiffers \/ headingDiffers)
              /\ \A k \in UpdatesOf(e.uid) :
                   LET u == result.updates[k]
                   IN /\ u.fields \subseteq {"string", "heading"}
                      /\ "string" \in u.fields <=> textDiffers
                      /\ "heading" \in u.fields <=> headingDiffers
                      /\ "string" \in u.fields => u.string = b.text
                      /\ "heading" \in u.fields =>
                           u.heading = IF b.heading = NullHeading THEN 0 ELSE b.heading

\* an update of the text alone on a block that has a heading, next to a
\* matched block that has no update
C20_Witness ==
  /\ pc = "diffed"
  /\ \E k \in 1..Len(result.updates) :
       /\ result.updates[k].fields = {"string"}
       /\ existing.block[result.updates[k].uid].heading # NullHeading
  /\ \E u \in MatchedUids : UpdatesOf(u) = {}

\* the bijections of 1..n
Bijections(n) == {p \in [1..n -> 1..n] : \A i, j \in 1..n : i # j => p[i] # p[j]}

\* blocks is the list of raw blocks raws, sorted by ascending order and
\* stamped with parent, with the defaults in the place of missing properties,
\* and so at every level below
RECURSIVE AdaptedFrom(_, _, _)
AdaptedFrom(blocks, raws, parent) ==
  /\ Len(blocks) = Len(raws)
  /\ \A i, j \in 1..Len(blocks) : i < j => blocks[i].order <= blocks[j].order
  /\ \E p \in Bijections(Len(blocks)) :
       \A i \in 1..Len(blocks) :
         LET b == blocks[i]
             r == raws[p[i]]
         IN /\ b.uid = (IF "uid" \in r.fields THEN r.uid ELSE "")
            /\ b.text = (IF "string" \in r.fields THEN r.string ELSE << >>)
            /\ b.order = (IF "order" \in r.fields THEN r.order ELSE 0)
            /\ b.heading = (IF "heading" \in r.fields THEN r.heading ELSE NullHeading)
            /\ b.parentUid = parent
            /\ AdaptedFrom(b.children,
                           IF "children" \in r.fields THEN r.children ELSE << >>, b.uid)

\* C14: parseExistingBlocks returns the blocks of the raw snapshot with the
\* children sorted by ascending order at every level (a missing order being
\* 0), top-level blocks with a null parentUid and every other block with the
\* uid of the block that holds it, and with empty string, 0, null and empty
\* string for a missing text, order, heading and uid.
C14_Adapter ==
  pc = "parsed" =>
    AdaptedFrom(parsed, IF "children" \in pageData.fields THEN pageData.children ELSE << >>,
                NullUid)

\* a snapshot whose top-level blocks come out of order, with a block that
\* has no order, and a child stamped with the uid of its parent
C14_Witness ==
  /\ pc = "parsed"
  /\ \E i, j \in 1..Len(pageData.children) :
       /\ i < j
       /\ "order" \in pageData.children[i].fields
       /\ "order" \notin pageData.children[j].fields
       /\ pageData.children[i].order > 0
  /\ \E i \in 1..Len(parsed) :
       /\ parsed[i].uid # ""
       /\ parsed[i].children # << >>
       /\ parsed[i].children[1].parentUid = parsed[i].uid

\* the graph a call targets
Targeted(c) == IF c.graphKey = Undefined THEN defaultKey ELSE c.graphKey

\* the graph has a write key to confirm: a non-empty write_key is configured
Protected(key) ==
  /\ key \in DOMAIN configs
  /\ key # defaultKey
  /\ "write_key" \in configs[key].fields
  /\ configs[key].write_key # ""

Disjoint ==
  \A i \in 1..Len(newBlocks) : \A k \in 1..Len(ExistingFlat) :
    normalizeForMatching(newBlocks[i].text) # normalizeForMatching(ExistingFlat[k].text)

\* C15 as stated, its last clause: disjoint content shows up only as creates
\* and deletes.
C15_DisjointOnlyCreatesDeletes ==
  (Diffed /\ Disjoint) =>
    /\ result.updates = << >>
    /\ result.moves = << >>
    /\ Len(result.creates) = Len(newBlocks)
    /\ Len(result.deletes) = Len(ExistingFlat)

\* the pass has returned from every call: one block per parsed node, every
\* action of the batch executed, and for disjoint content the first
\* min(desired, existing) blocks paired and updated when neither side has
\* more than 3, no block paired otherwise, the rest created and deleted
GracefulResult ==
  LET n == Len(newBlocks)
      m == Len(ExistingFlat)
      k == IF n <= 3 /\ m <= 3 THEN Min(n, m) ELSE 0
  IN /\ Len(newBlocks) = Len(nodes)
     /\ Len(actions) = Len(result.creates) + Len(result.moves)
                         + Len(result.updates) + Len(result.deletes)
     /\ next = Len(actions) + 1
     /\ Disjoint =>
          /\ Cardinality(result.preservedUids) = k
          /\ Len(result.updates) = k
          /\ Len(result.moves) <= k
          /\ Len(result.creates) = n - k
          /\ Len(result.deletes) = m - k
          /\ \A c \in 1..Len(result.creates) : result.creates[c].uid \in DesiredRefs
          /\ \A d \in 1..Len(result.deletes) : result.deletes[d].uid \in ExistingUids

\* the pass is at a call that returns, or applies the next action of the
\* batch, or has ended
PassStage ==
  \/ pc \in {"markdown", "nodes", "input", "matched", "diffed", "done"}
  \/ /\ pc = "executing"
     /\ next \in 1..(Len(actions) + 1)
     /\ next <= Len(actions) =>
          actions[next].action \in
            {"create-block", "move-block", "update-block", "delete-block"}

\* C15: for every document, whatever the indentation of its lines, and every
\* existing page, the empty ones included, parseMarkdown, markdownToBlocks,
\* matchBlocks, diffBlockTrees and generateBatchActions return without
\* raising: no call raises, every stage of the pass before its end has a
\* next call, and at the end every action of the batch was applied; disjoint
\* content shows up as creates and deletes alone when more than 3 blocks are
\* unmatched on a side, and else as updates of the blocks paired by position
\* with the rest created or deleted.
C15_NeverFails ==
  /\ pc # "raised"
  /\ PassStage
  /\ pc = "done" => GracefulResult

\* a document that starts at level 2 and falls back to level 0, against a
\* page of 4 blocks: creates and deletes alone
C15_Witness ==
  /\ pc = "done"
  /\ Len(markdown) >= 2
  /\ LeadingSpaces(markdown[1]) = 4
  /\ markdown[2] = <<"a">>
  /\ Len(ExistingFlat) = 4
  /\ Len(result.creates) = Len(newBlocks)
  /\ Len(result.deletes) = 4
  /\ result.updates = << >>

(***************************************************************************)
(* The move rule and the resolution of the desired parent.                 *)
(***************************************************************************)
\* the parent of existing block u, the page for a top-level block
CurrentParent(u) ==
  IF existing.block[u].parentUid = NullUid THEN parentUid
  ELSE existing.block[u].parentUid

\* C21: a matched desired node has at most one move, and has one exactly
\* when the parent that corresponds to its desired parent differs from the
\* current parent of its block or its index among the desired children of
\* that parent differs from the order of its block; the move carries that
\* parent and that index.  The node has no create and its block no delete,
\* and a node whose text differs and whose position differs has exactly one
\* update and one move on the uid of its block.
C21_MoveRule ==
  pc = "diffed" =>
    \A i \in 1..Len(newBlocks) :
      LET b == newBlocks[i] IN
      b.ref \in DOMAIN matches =>
        LET u == matches[b.ref]
            dParent == CorrespondingParent(b)
            index == IndexOf(DesiredChildren(dParent), u)
            displaced == CurrentParent(u) # dParent \/ existing.block[u].order # index
            retexted == normalizeText(b.text) # normalizeText(existing.block[u].text)
            at == PositionsOf(result.moves, u)
        IN /\ Cardinality(at) = IF displaced THEN 1 ELSE 0
           /\ \A k \in at :
                /\ result.moves[k].action = "move-block"
                /\ result.moves[k].parent = dParent
                /\ result.moves[k].order = index
           /\ PositionsOf(result.creates, b.ref) = {}
           /\ PositionsOf(result.deletes, u) = {}
           /\ retexted => Cardinality(PositionsOf(result.updates, u)) = 1

\* a matched node with a new text under a new parent: one update and one
\* move
C21_Witness ==
  /\ pc = "diffed"
  /\ \E i \in 1..Len(newBlocks) :
       /\ newBlocks[i].ref \in DOMAIN matches
       /\ LET u == matches[newBlocks[i].ref]
          IN /\ normalizeText(newBlocks[i].text) # normalizeText(existing.block[u].text)
             /\ CurrentParent(u) # CorrespondingParent(newBlocks[i])
             /\ Cardinality(PositionsOf(result.updates, u)) = 1
             /\ Cardinality(PositionsOf(result.moves, u)) = 1

\* the parent that the desired node b resolves to: the page for a null
\* parentRef and for the page, the block matched to the parent node, and
\* else the ref of the parent node
ResolvedParent(b) ==
  IF b.parentRef = NullUid \/ b.parentRef = parentUid THEN parentUid
  ELSE IF b.parentRef \in DOMAIN matches THEN matches[b.parentRef]
  ELSE b.parentRef

\* the number of desired nodes before position i that resolve to the parent
\* of the node at i
ResolvedIndex(i) ==
  Cardinality({j \in 1..(i - 1) :
                 ResolvedParent(newBlocks[j]) = ResolvedParent(newBlocks[i])})

\* the parents named by the creates and moves of the desired node b
LocationParents(b) ==
  {result.creates[k].parent : k \in PositionsOf(result.creates, b.ref)}
  \cup (IF b.ref \in DOMAIN matches
          THEN {result.moves[k].parent : k \in PositionsOf(result.moves, matches[b.ref])}
          ELSE {})

\* C22: the create of an unmatched desired node and the move of a matched
\* one name the resolved parent of the node (the page for a null parentRef
\* or the page, the block matched to the parent node, else the ref of the
\* parent node) and the index of the node among the desired nodes of that
\* resolved parent; a child of a matched parent node and a child of an
\* unmatched parent node are never placed under the same parent.
C22_ParentResolution ==
  pc = "diffed" =>
    /\ \A i \in 1..Len(newBlocks) :
         LET b == newBlocks[i] IN
         /\ b.ref \notin DOMAIN matches =>
              /\ PositionsOf(result.creates, b.ref) # {}
              /\ \A k \in PositionsOf(result.creates, b.ref) :
                   /\ result.creates[k].parent = ResolvedParent(b)
                   /\ result.creates[k].order = ResolvedIndex(i)
         /\ b.ref \in DOMAIN matches =>
              \A k \in PositionsOf(result.moves, matches[b.ref]) :
                /\ result.moves[k].parent = ResolvedParent(b)
                /\ result.moves[k].order = ResolvedIndex(i)
    /\ \A i, j \in 1..Len(newBlocks) :
         LET bi == newBlocks[i]
             bj == newBlocks[j]
         IN (/\ bi.parentRef \in DOMAIN matches
             /\ bj.parentRef \in DesiredRefs \ DOMAIN matches) =>
              LocationParents(bi) \cap LocationParents(bj) = {}

\* a top-level node with a null parentRef is created under the page next to
\* a matched node whose child is created under the matched block
C22_Witness ==
  /\ pc = "diffed"
  /\ \E i \in 1..Len(newBlocks) :
       /\ newBlocks[i].parentRef = NullUid
       /\ \E k \in PositionsOf(result.creates, newBlocks[i].ref) :
            result.creates[k].parent = parentUid /\ result.creates[k].order > 0
  /\ \E i \in 1..Len(newBlocks) :
       /\ newBlocks[i].parentRef \in DOMAIN matches
       /\ \E k \in PositionsOf(result.creates, newBlocks[i].ref) :
            result.creates[k].parent = matches[newBlocks[i].parentRef]

(***************************************************************************)
(* The execution of the batch in order.                                    *)
(***************************************************************************)
\* the desired list is in document order: every parentRef names the page or
\* the ref of an earlier node
DocumentOrdered ==
  \A i \in 1..Len(newBlocks) :
    \/ newBlocks[i].parentRef = parentUid
    \/ \E j \in 1..(i - 1) : newBlocks[j].ref = newBlocks[i].parentRef

\* the action that is executed next
Executes(kind) ==
  pc = "executing" /\ next <= Len(actions) /\ actions[next].action = kind

\* uid was created by a create that ran before the next action
CreatedEarlier(uid) ==
  \E k \in 1..(next - 1) :
    actions[k].action = "create-block" /\ actions[k].uid = uid /\ k \notin rejected

\* C23: for a desired list in document order, the parent named by the
\* create or move that is executed next is in the store at that moment: it
\* is the page, an existing block that is still in the store, or a block
\* created by an earlier create of the batch.
C23_ParentAvailable ==
  ((Executes("create-block") \/ Executes("move-block")) /\ DocumentOrdered) =>
    LET p == actions[next].parent IN
    /\ Present(store, p)
    /\ \/ p = parentUid
       \/ p \in ExistingUids /\ p \in DOMAIN store.block
       \/ CreatedEarlier(p)

\* the next action moves an existing block under a block that the batch
\* has created
C23_Witness ==
  /\ Executes("move-block")
  /\ actions[next].parent \in DesiredRefs
  /\ CreatedEarlier(actions[next].parent)
  /\ \E k \in 1..(next - 1) : actions[k].action = "create-block"
                              /\ actions[k].parent \in MatchedUids

(***************************************************************************)
(* The markdown parser.                                                    *)
(***************************************************************************)
\* the line is neither blank nor holds a fence
IsRegularLine(line) == TrimEnd(line) # << >> /\ indexOfFence(line) = -1

RegularDocument == \A i \in 1..Len(markdown) : IsRegularLine(markdown[i])

\* the level-indexed stack rule on the levels of the nodes from position i:
\* the stack is truncated to the level, the node is a root when the level
\* is 0 or the slot below is empty and else a child of the node in that
\* slot, and the slot of the level alone is set to the node.  The value is
\* the parent of every node, 0 for a root.
RECURSIVE StackRuleParents(_, _, _, _)
StackRuleParents(levels, i, stack, parents) ==
  IF i > Len(levels) THEN parents
  ELSE LET level == levels[i]
           truncated == popTo(stack, level)
           parent == IF level = 0 THEN 0 ELSE slot(truncated, level - 1)
       IN StackRuleParents(levels, i + 1, setSlot(truncated, level, i),
                           Append(parents, parent))

\* C24: on a document of regular lines, the parent of every node of the
\* forest of parseMarkdown is the parent that the level-indexed stack rule
\* gives for the levels of the nodes.
C24_StackRule ==
  (pc = "nodes" /\ RegularDocument) =>
    /\ Len(nodes) = Len(markdown)
    /\ LET parents == StackRuleParents([i \in 1..Len(nodes) |-> nodes[i].level],
                                       1, << >>, << >>)
       IN \A i \in 1..Len(nodes) : nodes[i].parent = parents[i]

\* the number of nodes due for the lines: one for each line that is not
\* blank outside a fence and one for each fence that closes
RECURSIVE NodesDue(_, _)
NodesDue(lines, inFence) ==
  IF lines = << >> THEN 0
  ELSE LET trimmedLine == TrimEnd(Head(lines))
       IN IF isFenceLine(trimmedLine)
            THEN (IF inFence THEN 1 ELSE 0) + NodesDue(Tail(lines), ~inFence)
          ELSE IF inFence THEN NodesDue(Tail(lines), TRUE)
          ELSE (IF trimmedLine = << >> THEN 0 ELSE 1) + NodesDue(Tail(lines), FALSE)

\* C25: the forest of parseMarkdown has one node for each line of the
\* split document that is not blank and outside a fence and one node for
\* each fence that is opened and closed; blank lines, an unclosed fence and
\* the lines after its opening give no node.
C25_NodeCount ==
  pc = "nodes" => Len(nodes) = NodesDue(processedLines(markdown), FALSE)

\* a fence that closes at once and a fence that never closes: one node
C25_Witness ==
  /\ pc = "nodes"
  /\ markdown = << Fence, Fence, Fence >>
  /\ Len(nodes) = 1

\* content.split('\n')
RECURSIVE SplitAtLineFeed(_)
SplitAtLineFeed(content) ==
  LET feeds == {i \in 1..Len(content) : content[i] = "\n"}
  IN IF feeds = {} THEN << content >>
     ELSE LET k == CHOOSE i \in feeds : \A j \in feeds : i <= j
          IN << SubSeq(content, 1, k - 1) >>
             \o SplitAtLineFeed(SubSeq(content, k + 1, Len(content)))

\* the document is one fence: a marker, interior lines, a marker
FenceAlone ==
  /\ Len(markdown) >= 2
  /\ markdown[1] = Fence
  /\ markdown[Len(markdown)] = Fence
  /\ \A i \in 2..(Len(markdown) - 1) : indexOfFence(markdown[i]) = -1

\* the least indentation of the interior lines that are not blank
MinIndentation ==
  LET filled == {i \in 2..(Len(markdown) - 1) : TrimEnd(markdown[i]) # << >>}
  IN IF filled = {} THEN 0
     ELSE LET least == CHOOSE i \in filled :
                         \A j \in filled : LeadingSpaces(markdown[i]) <= LeadingSpaces(markdown[j])
          IN LeadingSpaces(markdown[least])

\* C26: the node of a closed fence holds every interior line that is not
\* blank without its first m characters, m being the least indentation of
\* the interior lines that are not blank.
C26_FenceDedent ==
  (pc = "nodes" /\ FenceAlone) =>
    /\ Len(nodes) = 1
    /\ LET kept == SplitAtLineFeed(nodes[1].content)
       IN /\ Len(kept) = Len(markdown)
          /\ \A i \in 2..(Len(markdown) - 1) :
               TrimEnd(markdown[i]) # << >> =>
                 kept[i] = SubSeq(markdown[i], MinIndentation + 1, Len(markdown[i]))

\* the positions k of the document where a fence opens at line k and closes
\* at line k + 1, every other line being regular
FencePairAt ==
  {k \in 1..(Len(markdown) - 1) :
     /\ isFenceLine(TrimEnd(markdown[k]))
     /\ isFenceLine(TrimEnd(markdown[k + 1]))
     /\ \A i \in 1..Len(markdown) : i \notin {k, k + 1} => IsRegularLine(markdown[i])}

\* the document with the fence at k replaced by one regular line of the
\* indentation of its opening marker
FenceAsRegularLine(k) ==
  SubSeq(markdown, 1, k - 1)
  \o << indentationWhitespace(markdown[k]) \o <<"a">> >>
  \o SubSeq(markdown, k + 2, Len(markdown))

\* C27: a fence that opens at indentation w and closes gives one node of
\* level w div 2, and every node of the forest has the level and the parent
\* that it has when a regular line of that indentation stands in the place
\* of the fence.
C27_FenceAttachment ==
  pc = "nodes" =>
    \A k \in FencePairAt :
      LET regular == parseMarkdown(FenceAsRegularLine(k)).nodes
      IN /\ Len(nodes) = Len(regular)
         /\ nodes[k].level = LeadingSpaces(markdown[k]) \div 2
         /\ \A i \in 1..Len(nodes) :
              nodes[i].level = regular[i].level /\ nodes[i].parent = regular[i].parent

\* the position in newBlocks of the parent of the block at i, 0 for the page
BlockParent(i) ==
  IF newBlocks[i].parentRef = parentUid THEN 0
  ELSE CHOOSE j \in 1..Len(newBlocks) : newBlocks[j].ref = newBlocks[i].parentRef

\* C28: the blocks of markdownToBlocks have distinct refs; the parentRef of
\* every block is the page or the ref of an earlier block, the list is in
\* depth-first order (between a block and its parent stand descendants of
\* that parent alone), and the blocks are the nodes of the parser one to
\* one: a block has the page as parentRef exactly when its node is a root,
\* and else the block of the parent of its node, and its order is the
\* index of its node among the children of that parent.
C28_BlocksInDocumentOrder ==
  pc = "input" =>
    LET n == Len(newBlocks) IN
    /\ n = Len(nodes)
    /\ \A i, j \in 1..n : i # j => newBlocks[i].ref # newBlocks[j].ref
    /\ \A i \in 1..n :
         \/ newBlocks[i].parentRef = parentUid
         \/ \E j \in 1..(i - 1) : newBlocks[j].ref = newBlocks[i].parentRef
    /\ [i \in 1..n |-> BlockParent(i)] \in Forests(n)
    /\ \E f \in Bijections(n) :
         \A i \in 1..n :
           LET node == nodes[f[i]] IN
           /\ newBlocks[i].text = node.content
           /\ (newBlocks[i].parentRef = parentUid) <=> (node.parent = 0)
           /\ node.parent # 0 => f[BlockParent(i)] = node.parent
           /\ newBlocks[i].order =
                Cardinality({k \in 1..(f[i] - 1) : nodes[k].parent = node.parent})

\* a root fence stands between a line and the child of that line: the
\* child comes before the fence in the list of blocks
C28_Witness ==
  /\ pc = "input"
  /\ Len(nodes) = 3
  /\ nodes[2].parent = 0
  /\ nodes[3].parent = 1
  /\ newBlocks[2].parentRef = newBlocks[1].ref
  /\ newBlocks[2].text = nodes[3].content
  /\ newBlocks[3].parentRef = parentUid
  /\ newBlocks[3].order = 1

\* an action of the kind for uid stands before the next action and was
\* applied
RanEarlier(kind, uid) ==
  \E k \in 1..(next - 1) :
    actions[k].action = kind /\ actions[k].uid = uid /\ k \notin rejected

\* the refs of the desired list and the uids of the existing tree are
\* distinct and disjoint
UniqueIdentifiers ==
  LET flat == ExistingFlat
      uids == {flat[i].uid : i \in 1..Len(flat)}
      refs == DesiredRefs
  IN /\ Cardinality(uids) = Len(flat)
     /\ Cardinality(refs) = Len(newBlocks)
     /\ refs \cap uids = {}

\* C29: for unique uids and a desired list in document order, the block of
\* the delete that is executed next is in the store without a child: each
\* of its existing children was deleted earlier or is matched and was moved
\* under another parent earlier; and the create or move that is executed
\* next names no parent that the batch deletes.
C29_NoDeleteWithLiveChildren ==
  ((Executes("delete-block") \/ Executes("create-block") \/ Executes("move-block"))
   /\ DocumentOrdered /\ UniqueIdentifiers) =>
    /\ Executes("delete-block") =>
         LET d == actions[next].uid IN
         /\ d \in DOMAIN store.block
         /\ store.kids[d] = << >>
         /\ \A k \in 1..Len(existing.block[d].children) :
              LET c == existing.block[d].children[k] IN
              \/ RanEarlier("delete-block", c) /\ c \notin DOMAIN store.block
              \/ /\ c \in MatchedUids
                 /\ RanEarlier("move-block", c)
                 /\ store.block[c].parent # d
    /\ (Executes("create-block") \/ Executes("move-block")) =>
         DeletePositions(actions[next].parent) = {}

\* the next action deletes a block whose matched child was moved away
C29_Witness ==
  /\ Executes("delete-block")
  /\ \E k \in 1..Len(existing.block[actions[next].uid].children) :
       LET c == existing.block[actions[next].uid].children[k]
       IN c \in MatchedUids /\ RanEarlier("move-block", c)

\* the chain of parents of u in the store reaches the page within fuel steps
RECURSIVE ReachesPage(_, _)
ReachesPage(u, fuel) ==
  IF u = parentUid THEN TRUE
  ELSE IF fuel = 0 \/ u \notin DOMAIN store.block THEN FALSE
  ELSE ReachesPage(store.block[u].parent, fuel - 1)

\* the parent relation of the store is a forest under the page, and the
\* lists of children agree with it
StoreIsForest ==
  /\ \A u \in DOMAIN store.block :
       /\ ReachesPage(u, Cardinality(DOMAIN store.block))
       /\ Cardinality({k \in 1..Len(store.kids[store.block[u].parent]) :
                         store.kids[store.block[u].parent][k] = u}) = 1
  /\ \A p \in DOMAIN store.kids :
       \A k \in 1..Len(store.kids[p]) : store.block[store.kids[p][k]].parent = p

\* C30: for a desired list in document order, the move that is executed
\* next puts its block neither under itself nor under one of its
\* descendants in the store of that moment, and it is applied; the parent
\* relation of the store is a forest under the page at every step.
C30_NoCyclicMove ==
  (pc \in {"executing", "done"} /\ DocumentOrdered) =>
    /\ StoreIsForest
    /\ Executes("move-block") =>
         /\ ~IsAncestorOrSelf(store, actions[next].uid, actions[next].parent)
         /\ CanMove(store, actions[next])

\* the next action moves a block under the block that was its child in the
\* existing tree
C30_Witness ==
  /\ Executes("move-block")
  /\ actions[next].parent \in ExistingUids
  /\ existing.block[actions[next].parent].parentUid = actions[next].uid
  /\ ~IsAncestorOrSelf(store, actions[next].uid, actions[next].parent)

====
